---------------------------- MODULE Spec2Model ----------------------------
(***************************************************************************)
(* State-machine model of the aggregation-and-dispatch pipeline of         *)
(* qiangs_financial: MarketAnalyzer (src/analyzer/engine.py),              *)
(* StockCollector (src/collectors/stocks.py), PolicyCollector              *)
(* (src/collectors/policy_collector.py), NotificationDispatcher            *)
(* (src/notifier/dispatcher.py), BaseCrawler's dedup cache                 *)
(* (src/collectors/crawlers/base_crawler.py) and the scheduler             *)
(* (src/scheduler/monitor.py).                                             *)
(*                                                                         *)
(* Each component has its own specification (SpecAnalyzer and its fair     *)
(* variant SpecAnalyzerLive, SpecAnalyze, SpecAlert, SpecStocks,           *)
(* SpecMarketStocks, SpecPolicy, SpecDispatch, SpecCache, SpecFetch,       *)
(* SpecLatest, SpecConcurrentFetch, SpecSched) over the shared variables;  *)
(* the variables of the other components stay at their initial values.     *)
(*                                                                         *)
(* Market selector strings are written in ASCII: "a_share" stands for the  *)
(* source's "a股", "us" for "美股", "hk" for "港股".                        *)
(***************************************************************************)
EXTENDS Integers, Sequences, FiniteSets, TLC

VARIABLES
    \* ---- MarketAnalyzer (engine.py) ----
    aPc,          \* position of the running call: "idle", "await" (in the loop of
                  \* collect_all_data), "in_flight" (suspended in the collect()
                  \* of tasks[taskIdx]), "suspended" (awaiting a collect() that
                  \* never completes), "collect_raised" (an exception left
                  \* collect_all_data), "scan" (check_anomalies has its data),
                  \* "format" (analyze has its data), "llm" (analyze suspended
                  \* in _generate_report), "done" (returned), "raised" (an
                  \* exception left check_anomalies or analyze)
    caller,       \* "collect_all_data" (called directly), "check_anomalies"
                  \* or "analyze"
    market,       \* the selector passed to collect_all_data
    tasks,        \* engine.py:49 the list of (name, coroutine) pairs, by name
    taskIdx,      \* index of the pair the for loop of engine.py:58 is at
    results,      \* engine.py:47 the dict being built, as a sequence of <<key, value>>
    outcomes,     \* what each awaited adapter's collect() did (observed, for the claims)
    threshold,    \* config.alerts.price_change_percent
    anomalies,    \* engine.py:161 the list check_anomalies returns
    analysis,     \* engine.py:83-92 the dict analyze() returns, NoAnalysis before
    \* ---- NotificationDispatcher (dispatcher.py) ----
    dCfg,         \* NotificationConfig: enable flags and whether each credential is set
    channels,     \* dispatcher.py:11 self.channels, by channel name
    dPc,          \* "idle", "loop" (between iterations), "awaiting" (send_async
                  \* suspended on its POST), "done" (returned), "raised"
    dMode,        \* "sync" for send_all, "async" for send_all_async
    dIdx,         \* index of the channel the loop is at
    dResults,     \* the dict being built, as a sequence of <<name, entry>>
    sendCalls,    \* per channel, the send / send_async calls begun in this dispatch
    netCalls,     \* per channel, the HTTP POSTs issued in this dispatch
    sendOutcome,  \* per channel, how its send ended (observed, for the claims)
    sendResp,     \* per channel, what its POST got back (observed, for the claims)
    \* ---- BaseCrawler's cache (base_crawler.py) ----
    now,          \* datetime.now(), in ticks of TickHours hours
    cache,        \* base_crawler.py:16 self.cache: item key -> time first seen
    cOp,          \* the last call on the crawler: "none", "filter_new",
                  \* "clear_old_cache" or "fetch"
    cPrevOp,      \* the call before it
    cItems,       \* the items of the last filter_new (for fetch: what parse gave)
    cReturned,    \* what the last filter_new or fetch returned
    cHours,       \* the hours argument of the last clear_old_cache
    cEvicted,     \* the keys the last clear_old_cache deleted (observed)
    cRepeat,      \* the last call was filter_new with the items of the filter_new
                  \* call directly before it (observed)
    fPc,          \* per concurrent fetch() call on the crawler: "idle", "get_html"
                  \* (suspended in await get_html), "done" (parsed and filtered)
                  \* or "failed" (get_html gave "", [] returned)
    fPage,        \* the items the page parses to while these calls run
    fReturned,    \* per call, the list fetch() returned
    fAt,          \* per call, the time at which it returned (observed)
    \* ---- scheduler (monitor.py) ----
    sCfg,         \* config.scheduler: the enabled flag of each of the three tasks
    sPhase,       \* "Stopped", "Initialized", "Running" or "ShuttingDown"
    sExited,      \* run_forever() has returned: start_scheduler is over
    registered,   \* the scheduler's job list: one [job, cron] per add_job call
    jobPc,        \* per job: "idle", "awaiting" (suspended in its await), or
                  \* "sending" (inside the blocking notifier.send_all)
    fires,        \* per job, the invocations begun so far
    sent,         \* per job, the send_all calls it has made and got back from
    handlerRan,   \* the shutdown handler has run
    sInited,      \* monitor.py:16-17 the globals analyzer and notifier are set
    sJobsAdded,   \* start_scheduler is past its add_job section
    \* ---- StockCollector (stocks.py) ----
    kStocks,      \* stocks.py:15 self.stocks: the market of each configured symbol
    kPc,          \* position of collect(): "idle", "loop" (between iterations),
                  \* "fetch" (collect_one suspended in to_thread(fetch)), "done"
    kIdx,         \* index of the symbol the for loop of stocks.py:20 is at
    kProvider,    \* per symbol, what the market-data provider did (observed)
    kResults,     \* stocks.py:19 the list collect() builds
    \* ---- PolicyCollector (policy_collector.py) ----
    pCfg,         \* config["crawlers"]: a sequence of [enabled, type] entries
    pPc,          \* "new" (not constructed), "idle", "gather" (collect() suspended
                  \* in asyncio.gather), "done" (returned), "raised"
    pCrawlers,    \* policy_collector.py:16 self.crawlers, by crawler type
    pFetch,       \* per crawler, its fetch(): Pending, or how it ended
    pOrder,       \* the crawlers' indices in the order their fetches ended (observed)
    pResults      \* policy_collector.py:50 the list collect() returns

analyzerVars == <<aPc, caller, market, tasks, taskIdx, results, outcomes, threshold, anomalies, analysis>>

dispatchVars ==
    <<dCfg, channels, dPc, dMode, dIdx, dResults, sendCalls, netCalls, sendOutcome, sendResp>>

cacheVars ==
    <<now, cache, cOp, cPrevOp, cItems, cReturned, cHours, cEvicted, cRepeat,
      fPc, fPage, fReturned, fAt>>

schedVars ==
    <<sCfg, sPhase, sExited, registered, jobPc, fires, sent, handlerRan, sInited, sJobsAdded>>

stockVars == <<kStocks, kPc, kIdx, kProvider, kResults>>

policyVars == <<pCfg, pPc, pCrawlers, pFetch, pOrder, pResults>>

vars == <<analyzerVars, dispatchVars, cacheVars, schedVars, stockVars, policyVars>>

-----------------------------------------------------------------------------
(* Bounds of the model *)

\* symbols configured per price category (config.markets.stocks / .crypto)
MaxPoints == 2

\* items in one filter_new call or one parsed page
MaxItems == 2

\* the clock stops after this many ticks
MaxTicks == 3

\* fires of one job the model follows
MaxFires == 2

-----------------------------------------------------------------------------
(* Python dict, insertion ordered: a sequence of <<key, value>> pairs *)

DictKeys(d) == [i \in 1..Len(d) |-> d[i][1]]

DictHas(d, k) == \E i \in 1..Len(d) : d[i][1] = k

DictGet(d, k) == d[CHOOSE i \in 1..Len(d) : d[i][1] = k][2]

\* d.get(k, default)
DictGetOr(d, k, default) == IF DictHas(d, k) THEN DictGet(d, k) ELSE default

\* d[k] = v : replaces in place when the key exists, appends otherwise
DictSet(d, k, v) ==
    IF DictHas(d, k)
    THEN [i \in 1..Len(d) |-> IF d[i][1] = k THEN <<k, v>> ELSE d[i]]
    ELSE Append(d, <<k, v>>)

-----------------------------------------------------------------------------
(* DataPoints and what the adapters can return *)

\* content["change_pct"]: a number, present but None, or absent
Num(n) == [tag |-> "num", val |-> n]
Null == [tag |-> "null", val |-> 0]
Missing == [tag |-> "missing", val |-> 0]

\* -4: a negative move beyond the default threshold; 3: a move at the default
\* threshold; 1: a move below it; 0: no move
ChangeNums == {-4, 0, 1, 3}

\* stocks.py:59,76 a stock's content has a float change_pct, or is {} when the
\* provider failed (content=data or {})
StockChanges == {Num(n) : n \in ChangeNums} \cup {Missing}

\* crypto.py:51 ticker.get("percentage", 0): a number, 0 when the key is
\* absent, None when the ticker carries the key with no value
CryptoChanges == {Num(n) : n \in ChangeNums} \cup {Null}

Changes(cat) ==
    IF cat = "stocks" THEN StockChanges
    ELSE IF cat = "crypto" THEN CryptoChanges
    ELSE {Missing}

\* a DataPoint, reduced to what the analyzer reads: content.get("symbol") and
\* content.get("change_pct"); the i-th configured symbol of a category is <<cat, i>>
DataPoints(cat) ==
    [symbol : {<<cat, i>> : i \in 1..MaxPoints}, change_pct : Changes(cat)]

\* collect() appends one DataPoint per configured symbol, in configuration
\* order, skipping a symbol whose collect_one returned None or raised
AdapterLists(cat) ==
    {s \in UNION {[1..n -> DataPoints(cat)] : n \in 0..MaxPoints} :
        \A i, j \in 1..Len(s) : i < j => s[i].symbol[2] < s[j].symbol[2]}

\* news.py collect(): the analyzer does not look into news items
NewsLists == {<<>>, <<[symbol |-> <<"news", 1>>, change_pct |-> Missing]>>}

Returned(data) == [kind |-> "return", data |-> data]
Raised == [kind |-> "raise", data |-> <<>>]

\* every way an adapter's collect() coroutine can end when awaited
CollectOutcomes(cat) ==
    {Raised} \cup
    {Returned(d) : d \in (IF cat = "news" THEN NewsLists ELSE AdapterLists(cat))}


-----------------------------------------------------------------------------
(* StockCollector.collect, stocks.py:18-153 *)

\* config.py:19 the market of a configured stock is a free string; "other"
\* stands for any value outside the three the collector names
StockMarkets == {"a_share", "us", "hk", "other"}

\* what the provider does inside fetch(): the symbol's row is there (with its
\* change), the table has no row for it (row.empty, hist.empty), or the
\* provider call raises
ProviderOutcomes ==
    {[kind |-> "row", change |-> n] : n \in ChangeNums}
    \cup {[kind |-> "no_row", change |-> 0], [kind |-> "raises", change |-> 0]}

\* stocks.py:48-68,81-111,126-143 fetch(): the dict of the row, as a sequence
\* of <<key, value>>; None (here <<>>) when the row is empty or, through
\* "except Exception: return None", when the provider raised
FetchData(sym, o) ==
    IF o.kind = "row" THEN <<<<"symbol", sym>>, <<"change_pct", o.change>>>> ELSE <<>>

\* stocks.py:36-43 the provider collect_one goes to for a market
SourceOf(m) == IF m \in {"a_share", "hk"} THEN "akshare" ELSE "yfinance"

\* stocks.py:70-78,113-121,145-153 the DataPoint _collect_*_stock returns:
\* content=data or {}, so a DataPoint is built also when fetch() gave None
StockDataPoint(sym, m, o) ==
    [source |-> SourceOf(m), content |-> FetchData(sym, o), symbol |-> sym]

\* stocks.py:18-19 collect() is entered: results = []
StartStockCollect ==
    /\ kPc = "idle"
    /\ kPc' = "loop"
    /\ kIdx' = 1
    /\ kProvider' = <<>>
    /\ kResults' = <<>>
    /\ UNCHANGED kStocks
    /\ UNCHANGED <<analyzerVars, dispatchVars, cacheVars, schedVars, policyVars>>

\* stocks.py:20-22,29-43,70 the loop awaits collect_one for the next symbol,
\* which suspends in asyncio.to_thread(fetch)
CollectOneStart ==
    /\ kPc = "loop"
    /\ kIdx <= Len(kStocks)
    /\ kPc' = "fetch"
    /\ UNCHANGED <<kStocks, kIdx, kProvider, kResults>>
    /\ UNCHANGED <<analyzerVars, dispatchVars, cacheVars, schedVars, policyVars>>

\* stocks.py:70-78 and 22-26 fetch() has ended, collect_one returns its
\* DataPoint and collect appends it ("if dp": a DataPoint is always truthy)
CollectOneEnd ==
    /\ kPc = "fetch"
    /\ \E o \in ProviderOutcomes :
        /\ kProvider' = Append(kProvider, o)
        /\ kResults' = Append(kResults, StockDataPoint(<<"stocks", kIdx>>, kStocks[kIdx], o))
    /\ kIdx' = kIdx + 1
    /\ kPc' = "loop"
    /\ UNCHANGED kStocks
    /\ UNCHANGED <<analyzerVars, dispatchVars, cacheVars, schedVars, policyVars>>

\* stocks.py:27 return results
ReturnStocks ==
    /\ kPc = "loop"
    /\ kIdx > Len(kStocks)
    /\ kPc' = "done"
    /\ UNCHANGED <<kStocks, kIdx, kProvider, kResults>>
    /\ UNCHANGED <<analyzerVars, dispatchVars, cacheVars, schedVars, policyVars>>

NextStocks ==
    \/ StartStockCollect
    \/ CollectOneStart
    \/ CollectOneEnd
    \/ ReturnStocks

-----------------------------------------------------------------------------
(* PolicyCollector, policy_collector.py:12-73 *)

MaxCrawlers == 2

\* policy_collector.py:23-28 the keys of crawler_classes
KnownTypes == {"pbc", "pbc_open_market", "csrc", "ndrc"}

\* the types a configuration entry is drawn from: two known ones and one that
\* is not a key of crawler_classes
EntryTypes == {"pbc", "csrc", "other"}

CrawlerEntries == [enabled : BOOLEAN, type : EntryTypes]

\* policy_collector.py:41-46 the list used when no crawler was configured
DefaultCrawlers == <<"pbc", "pbc_open_market", "csrc", "ndrc">>

\* policy_collector.py:30-38 the loop over the entries: a disabled entry is
\* skipped, an entry of a known type appends one crawler
RECURSIVE ConfiguredCrawlers(_)
ConfiguredCrawlers(cfg) ==
    IF cfg = <<>> THEN <<>>
    ELSE (IF Head(cfg).enabled /\ Head(cfg).type \in KnownTypes
          THEN <<Head(cfg).type>> ELSE <<>>)
         \o ConfiguredCrawlers(Tail(cfg))

\* policy_collector.py:19-46 _init_crawlers: the configured crawlers, or all
\* four when that list is empty
InitCrawlers(cfg) ==
    IF ConfiguredCrawlers(cfg) = <<>> THEN DefaultCrawlers ELSE ConfiguredCrawlers(cfg)

Pending == [kind |-> "pending", items |-> <<>>]

\* how a crawler's fetch() can end: it raises, or returns its new items (here
\* by their position on the page)
FetchOutcomes ==
    {[kind |-> "raise", items |-> <<>>],
     [kind |-> "return", items |-> <<>>],
     [kind |-> "return", items |-> <<1, 2>>]}

\* policy_collector.py:60-71 the DataPoints made of one crawler's items, in the
\* items' order; source defaults to the crawler's name
PolicyPoints(i, type, items) ==
    [n \in 1..Len(items) |-> [source |-> type, crawler |-> i, item |-> items[n]]]

\* policy_collector.py:55-71 the loop over zip(self.crawlers, all_items) from
\* the i-th pair on: an exception in place of a list is skipped
RECURSIVE ZipFrom(_, _, _)
ZipFrom(crawlers, outs, i) ==
    IF i > Len(crawlers) THEN <<>>
    ELSE (IF outs[i].kind = "raise" THEN <<>>
          ELSE PolicyPoints(i, crawlers[i], outs[i].items))
         \o ZipFrom(crawlers, outs, i + 1)

\* gather without return_exceptions: the first exception leaves collect()
CollectPropagating(crawlers, outs) ==
    [raised |-> \E i \in 1..Len(outs) : outs[i].kind = "raise",
     results |-> ZipFrom(crawlers, outs, 1)]

\* policy_collector.py:53-73 what collect() does once gather has every
\* fetch's outcome: gather(..., return_exceptions=True) hands the outcomes
\* over in the order of the tasks, exceptions as values
Collect(crawlers, outs) ==
    [raised |-> FALSE, results |-> ZipFrom(crawlers, outs, 1)]

\* policy_collector.py:15-17 PolicyCollector(crawler_config)
Construct ==
    /\ pPc = "new"
    /\ pCrawlers' = InitCrawlers(pCfg)
    /\ pPc' = "idle"
    /\ UNCHANGED <<pCfg, pFetch, pOrder, pResults>>
    /\ UNCHANGED <<analyzerVars, dispatchVars, cacheVars, schedVars, stockVars>>

\* policy_collector.py:48-53 collect() is entered, creates one fetch() per
\* crawler and suspends in gather, which schedules them all
StartPolicyCollect ==
    /\ pPc = "idle"
    /\ pFetch' = [i \in 1..Len(pCrawlers) |-> Pending]
    /\ pOrder' = <<>>
    /\ pResults' = <<>>
    /\ pPc' = "gather"
    /\ UNCHANGED <<pCfg, pCrawlers>>
    /\ UNCHANGED <<analyzerVars, dispatchVars, cacheVars, schedVars, stockVars>>

\* one of the scheduled fetches ends, in any order
FetchCompletes ==
    /\ pPc = "gather"
    /\ \E i \in 1..Len(pCrawlers) :
        /\ pFetch[i] = Pending
        /\ \E o \in FetchOutcomes : pFetch' = [pFetch EXCEPT ![i] = o]
        /\ pOrder' = Append(pOrder, i)
    /\ UNCHANGED <<pCfg, pPc, pCrawlers, pResults>>
    /\ UNCHANGED <<analyzerVars, dispatchVars, cacheVars, schedVars, stockVars>>

\* policy_collector.py:53-73 gather returns and collect() builds and returns
\* its list
ReturnPolicy ==
    /\ pPc = "gather"
    /\ \A i \in 1..Len(pCrawlers) : pFetch[i] # Pending
    /\ LET r == Collect(pCrawlers, pFetch) IN
        /\ pPc' = IF r.raised THEN "raised" ELSE "done"
        /\ pResults' = IF r.raised THEN <<>> ELSE r.results
    /\ UNCHANGED <<pCfg, pCrawlers, pFetch, pOrder>>
    /\ UNCHANGED <<analyzerVars, dispatchVars, cacheVars, schedVars, stockVars>>

NextPolicy ==
    \/ Construct
    \/ StartPolicyCollect
    \/ FetchCompletes
    \/ ReturnPolicy

-----------------------------------------------------------------------------
(* Notification channels, telegram.py and wechat.py *)

ChannelNames == {"telegram", "wechat"}

\* config.py:52-65 NotificationConfig; a credential is modelled by whether the
\* string is non-empty
Configs ==
    [tgEnabled : BOOLEAN, tgToken : BOOLEAN, tgChat : BOOLEAN,
     wcEnabled : BOOLEAN, wcWebhook : BOOLEAN]

\* config.py:52-65 the defaults: both channels disabled, credentials empty
NoChannels ==
    [tgEnabled |-> FALSE, tgToken |-> FALSE, tgChat |-> FALSE,
     wcEnabled |-> FALSE, wcWebhook |-> FALSE]

NoCalls == [n \in ChannelNames |-> 0]

\* what the POST does: the client raises (connection error, timeout, a body
\* that is not JSON), or a response arrives with a status code and, in its
\* JSON body, an errcode (-1 stands for a body without errcode, as
\* data.get("errcode", -1) reads it)
Responses ==
    {[exc |-> TRUE, status |-> 0, errcode |-> -1]}
    \cup [exc : {FALSE}, status : {200, 204, 500}, errcode : {-1, 0, 1}]

\* no POST was made
NoResponse == [exc |-> FALSE, status |-> 0, errcode |-> -1]

\* telegram's check looks at the token only
HasCredentialsTokenOnly(name, cfg) ==
    IF name = "telegram" THEN cfg.tgToken ELSE cfg.wcWebhook

\* telegram.py:29,50 / wechat.py:13,32 the credential check at the top of send
\* and send_async
HasCredentials(name, cfg) ==
    IF name = "telegram" THEN cfg.tgToken /\ cfg.tgChat ELSE cfg.wcWebhook

\* telegram.py:40-47,60-65 / wechat.py:22-29,40-46 the value send returns once
\* the POST has ended: a raised exception is caught and gives False
SendResult(name, resp) ==
    IF resp.exc THEN FALSE
    ELSE IF name = "telegram" THEN resp.status = 200
    ELSE resp.errcode = 0

-----------------------------------------------------------------------------
(* NotificationDispatcher, dispatcher.py:9-54 *)

\* wechat added under telegram's class: a copy-and-paste slip in __init__
BuildChannelsTwice(cfg) ==
    (IF cfg.tgEnabled THEN <<"telegram">> ELSE <<>>)
    \o (IF cfg.wcEnabled THEN <<"telegram">> ELSE <<>>)

\* dispatcher.py:10-21 __init__: telegram first, then wechat, each if enabled
BuildChannels(cfg) ==
    (IF cfg.tgEnabled THEN <<"telegram">> ELSE <<>>)
    \o (IF cfg.wcEnabled THEN <<"wechat">> ELSE <<>>)

SendReturned(b) == [kind |-> "return", val |-> b]
SendRaised == [kind |-> "raise", val |-> FALSE]

\* the try/except dropped: an exception leaves send_all
OnSendUnguarded(res, name, o) ==
    IF o.kind = "return"
    THEN [results |-> DictSet(res, name,
                        [success |-> o.val,
                         message |-> IF o.val THEN "OK" ELSE "Failed"]),
          raised |-> FALSE]
    ELSE [results |-> res, raised |-> TRUE]

\* dispatcher.py:26-36 the body of send_all's loop for one channel
OnSend(res, name, o) ==
    IF o.kind = "return"
    THEN [results |-> DictSet(res, name,
                        [success |-> o.val,
                         message |-> IF o.val THEN "OK" ELSE "Failed"]),
          raised |-> FALSE]
    ELSE [results |-> DictSet(res, name, [success |-> FALSE, message |-> "str(e)"]),
          raised |-> FALSE]

\* dispatcher.py:48-52 the body of send_all_async's second loop for one task
OnSendAsync(res, name, o) ==
    IF o.kind = "return"
    THEN [results |-> DictSet(res, name, [success |-> o.val, message |-> "OK"]),
          raised |-> FALSE]
    ELSE [results |-> DictSet(res, name, [success |-> FALSE, message |-> "str(e)"]),
          raised |-> FALSE]

\* dispatcher.py:23-24 send_all(message) is entered, or dispatcher.py:39-45
\* send_all_async(message): its first loop creates one send_async coroutine
\* per channel and runs none of them
StartSendAll ==
    /\ dPc \in {"idle", "done"}
    /\ dMode' \in {"sync", "async"}
    /\ dPc' = "loop"
    /\ dIdx' = 1
    /\ dResults' = <<>>
    /\ sendCalls' = NoCalls
    /\ netCalls' = NoCalls
    /\ sendOutcome' = <<>>
    /\ sendResp' = <<>>
    /\ UNCHANGED <<dCfg, channels, analyzerVars, cacheVars, schedVars, stockVars, policyVars>>

\* dispatcher.py:25-36 one iteration of send_all: channel.send(message) runs to
\* its end (telegram.py:28-47, wechat.py:12-29) and its outcome is stored
SendSync ==
    /\ dPc = "loop"
    /\ dMode = "sync"
    /\ dIdx <= Len(channels)
    /\ LET name == channels[dIdx] IN
       \E e \in {[o |-> SendRaised, posted |-> FALSE, resp |-> NoResponse]}
                \cup (IF HasCredentials(name, dCfg)
                      THEN {[o |-> SendReturned(SendResult(name, resp)),
                             posted |-> TRUE, resp |-> resp] : resp \in Responses}
                      ELSE {[o |-> SendReturned(FALSE), posted |-> FALSE,
                             resp |-> NoResponse]}) :
            LET o == e.o
                r == OnSend(dResults, name, o) IN
            /\ sendCalls' = [sendCalls EXCEPT ![name] = @ + 1]
            /\ netCalls' = [netCalls EXCEPT ![name] =
                              IF HasCredentials(name, dCfg) /\ o.kind = "return"
                              THEN @ + 1 ELSE @]
            /\ sendOutcome' = DictSet(sendOutcome, name, o)
            /\ sendResp' = IF e.posted THEN DictSet(sendResp, name, e.resp) ELSE sendResp
            /\ dResults' = r.results
            /\ dPc' = IF r.raised THEN "raised" ELSE "loop"
    /\ dIdx' = dIdx + 1
    /\ UNCHANGED <<dCfg, channels, dMode, analyzerVars, cacheVars, schedVars, stockVars, policyVars>>

\* dispatcher.py:47-49 "await task" starts the channel's send_async: without
\* credentials it returns False at once (telegram.py:50-51, wechat.py:32-33);
\* it may raise; otherwise it issues its POST and suspends
AwaitSendStart ==
    /\ dPc = "loop"
    /\ dMode = "async"
    /\ dIdx <= Len(channels)
    /\ LET name == channels[dIdx] IN
        /\ sendCalls' = [sendCalls EXCEPT ![name] = @ + 1]
        /\ \/ /\ HasCredentials(name, dCfg)
              /\ netCalls' = [netCalls EXCEPT ![name] = @ + 1]
              /\ dPc' = "awaiting"
              /\ UNCHANGED <<dIdx, dResults, sendOutcome>>
           \/ \E o \in {SendRaised}
                       \cup (IF HasCredentials(name, dCfg) THEN {}
                             ELSE {SendReturned(FALSE)}) :
                LET r == OnSendAsync(dResults, name, o) IN
                /\ sendOutcome' = DictSet(sendOutcome, name, o)
                /\ dResults' = r.results
                /\ dPc' = IF r.raised THEN "raised" ELSE "loop"
                /\ dIdx' = dIdx + 1
                /\ UNCHANGED netCalls
    /\ UNCHANGED <<dCfg, channels, dMode, sendResp, analyzerVars, cacheVars, schedVars, stockVars, policyVars>>

\* telegram.py:60-65 / wechat.py:40-46 the POST of the suspended send_async
\* ends, send_async returns, and dispatcher.py:49-50 stores the result
AwaitSendResume ==
    /\ dPc = "awaiting"
    /\ LET name == channels[dIdx] IN
       \E resp \in Responses :
            LET o == SendReturned(SendResult(name, resp))
                r == OnSendAsync(dResults, name, o) IN
            /\ sendOutcome' = DictSet(sendOutcome, name, o)
            /\ sendResp' = DictSet(sendResp, name, resp)
            /\ dResults' = r.results
            /\ dPc' = IF r.raised THEN "raised" ELSE "loop"
    /\ dIdx' = dIdx + 1
    /\ UNCHANGED <<dCfg, channels, dMode, sendCalls, netCalls, analyzerVars, cacheVars, schedVars, stockVars, policyVars>>

\* dispatcher.py:37,54 return results
ReturnSendAll ==
    /\ dPc = "loop"
    /\ dIdx > Len(channels)
    /\ dPc' = "done"
    /\ UNCHANGED <<dCfg, channels, dMode, dIdx, dResults, sendCalls, netCalls, sendOutcome, sendResp>>
    /\ UNCHANGED <<analyzerVars, cacheVars, schedVars, stockVars, policyVars>>

NextDispatch ==
    \/ StartSendAll
    \/ SendSync
    \/ AwaitSendStart
    \/ AwaitSendResume
    \/ ReturnSendAll

-----------------------------------------------------------------------------
(* BaseCrawler's dedup cache, base_crawler.py:48-65, and fetch *)

\* base_crawler.py:58 the default of clear_old_cache(hours)
DefaultTTL == 24

\* base_crawler.py:62 hours * 3600
SecondsPerHour == 3600

\* one tick of the clock is half the default TTL
TickHours == DefaultTTL \div 2

TickSeconds == TickHours * SecondsPerHour

\* the hours arguments tried: one tick, and the default
HoursArgs == {TickHours, DefaultTTL}

\* an item dict, reduced to the two fields filter_new reads; "" is the value
\* item.get(..., "") gives for an absent field
Items ==
    {[url |-> "u1", title |-> "t1"], [url |-> "", title |-> "t1"],
     [url |-> "", title |-> ""]}

\* pbc_crawler.py:42-55 parse() skips an anchor without title or without
\* href, so a parsed item has both
ParsedItems == {[url |-> "u1", title |-> "t1"], [url |-> "u2", title |-> "t2"]}

ItemLists(S) == UNION {[1..n -> S] : n \in 0..MaxItems}

EmptyCache == [k \in {} |-> 0]

\* the title looked at before the url
ItemKeyTitleFirst(item) == IF item.title # "" THEN item.title ELSE item.url

\* base_crawler.py:52 item.get("url", "") or item.get("title", "")
ItemKey(item) == IF item.url # "" THEN item.url ELSE item.title

\* base_crawler.py:51-55 the for loop of filter_new from item i on, over the
\* cache c at time t, new_items so far in acc
RECURSIVE FilterLoop(_, _, _, _, _)
FilterLoop(items, i, c, t, acc) ==
    IF i > Len(items) THEN [cache |-> c, new_items |-> acc]
    ELSE LET item_id == ItemKey(items[i]) IN
         IF item_id # "" /\ item_id \notin DOMAIN c
         THEN FilterLoop(items, i + 1,
                         [k \in DOMAIN c \cup {item_id} |->
                             IF k = item_id THEN t ELSE c[k]],
                         t, Append(acc, items[i]))
         ELSE FilterLoop(items, i + 1, c, t, acc)

\* the two fetch() calls followed when they run concurrently
Calls == {1, 2}

\* the test "not in self.cache" missing: every item with a key is recorded
\* anew and returned
filter_new_unchecked(items, c, t) ==
    [cache |-> [k \in DOMAIN c \cup ({ItemKey(items[i]) : i \in 1..Len(items)} \ {""}) |->
                  IF \E i \in 1..Len(items) : ItemKey(items[i]) = k THEN t ELSE c[k]],
     new_items |-> SelectSeq(items, LAMBDA it : ItemKey(it) # "")]

\* the cache left as it was: line 54 missing
filter_new_unrecorded(items, c, t) ==
    [cache |-> c, new_items |-> FilterLoop(items, 1, c, t, <<>>).new_items]

\* base_crawler.py:48-56 filter_new(items): the cache after it and the list
\* it returns
filter_new(items, c, t) == FilterLoop(items, 1, c, t, <<>>)

\* >= in place of >
clear_old_cache_inclusive(c, hours, t) ==
    [k \in {k \in DOMAIN c : ~((t - c[k]) * TickSeconds >= hours * SecondsPerHour)} |-> c[k]]

\* base_crawler.py:58-65 clear_old_cache(hours): the cache after it
clear_old_cache(c, hours, t) ==
    [k \in {k \in DOMAIN c : ~((t - c[k]) * TickSeconds > hours * SecondsPerHour)} |-> c[k]]

\* time passes
Advance ==
    /\ now < MaxTicks
    /\ now' = now + 1
    /\ UNCHANGED <<cache, cOp, cPrevOp, cItems, cReturned, cHours, cEvicted, cRepeat>>
    /\ UNCHANGED <<fPc, fPage, fReturned, fAt>>
    /\ UNCHANGED <<analyzerVars, dispatchVars, schedVars, stockVars, policyVars>>

\* base_crawler.py:48-56 a call filter_new(items)
FilterNew ==
    /\ \E items \in ItemLists(Items) :
        LET r == filter_new(items, cache, now) IN
        /\ cItems' = items
        /\ cache' = r.cache
        /\ cReturned' = r.new_items
        /\ cRepeat' = (cOp = "filter_new" /\ items = cItems)
    /\ cOp' = "filter_new"
    /\ cPrevOp' = cOp
    /\ UNCHANGED <<now, cHours, cEvicted, fPc, fPage, fReturned, fAt>>
    /\ UNCHANGED <<analyzerVars, dispatchVars, schedVars, stockVars, policyVars>>

\* base_crawler.py:58-65 a call clear_old_cache(hours)
ClearOldCache ==
    /\ \E hours \in HoursArgs :
        /\ cHours' = hours
        /\ cache' = clear_old_cache(cache, hours, now)
    /\ cEvicted' = DOMAIN cache \ DOMAIN cache'
    /\ cOp' = "clear_old_cache"
    /\ cPrevOp' = cOp
    /\ cRepeat' = FALSE
    /\ UNCHANGED <<now, cItems, cReturned, fPc, fPage, fReturned, fAt>>
    /\ UNCHANGED <<analyzerVars, dispatchVars, schedVars, stockVars, policyVars>>

\* pbc_crawler.py:23-30 fetch() (the same in every crawler): get_html gave ""
\* and fetch returns [] without touching the cache, or the page is parsed and
\* the items go through filter_new
Fetch ==
    /\ \/ /\ cItems' = <<>>
          /\ cReturned' = <<>>
          /\ UNCHANGED cache
       \/ \E items \in ItemLists(ParsedItems) :
            LET r == filter_new(items, cache, now) IN
            /\ cItems' = items
            /\ cache' = r.cache
            /\ cReturned' = r.new_items
    /\ cOp' = "fetch"
    /\ cPrevOp' = cOp
    /\ cRepeat' = FALSE
    /\ UNCHANGED <<now, cHours, cEvicted, fPc, fPage, fReturned, fAt>>
    /\ UNCHANGED <<analyzerVars, dispatchVars, schedVars, stockVars, policyVars>>

\* csrc_crawler.py:23-25 a fetch() call is made while another may be under
\* way: it runs to "await self.get_html()" and suspends in the GET
\* (base_crawler.py:35-36)
FetchBegin ==
    /\ \E p \in Calls :
        /\ fPc[p] = "idle"
        /\ fPc' = [fPc EXCEPT ![p] = "get_html"]
    /\ UNCHANGED <<now, cache, cOp, cPrevOp, cItems, cReturned, cHours, cEvicted, cRepeat>>
    /\ UNCHANGED <<fPage, fReturned, fAt>>
    /\ UNCHANGED <<analyzerVars, dispatchVars, schedVars, stockVars, policyVars>>

\* csrc_crawler.py:25-30 the GET of a suspended call ends and the call runs on
\* to its return without another await: [] if the html is empty, otherwise
\* parse and filter_new on the shared cache
FetchEnd ==
    /\ \E p \in Calls :
        /\ fPc[p] = "get_html"
        /\ \/ /\ fPc' = [fPc EXCEPT ![p] = "failed"]
              /\ fReturned' = [fReturned EXCEPT ![p] = <<>>]
              /\ UNCHANGED cache
           \/ LET r == filter_new(fPage, cache, now) IN
              /\ fPc' = [fPc EXCEPT ![p] = "done"]
              /\ fReturned' = [fReturned EXCEPT ![p] = r.new_items]
              /\ cache' = r.cache
        /\ fAt' = [fAt EXCEPT ![p] = now]
    /\ UNCHANGED <<now, cOp, cPrevOp, cItems, cReturned, cHours, cEvicted, cRepeat, fPage>>
    /\ UNCHANGED <<analyzerVars, dispatchVars, schedVars, stockVars, policyVars>>

\* two fetch() calls on one crawler instance, interleaved at their awaits
NextConcurrentFetch ==
    \/ Advance
    \/ FetchBegin
    \/ FetchEnd

\* the cache driven through its own two methods
NextCache ==
    \/ Advance
    \/ FilterNew
    \/ ClearOldCache

\* the crawler as the program drives it: PolicyCollector.collect calls fetch(),
\* and no code calls clear_old_cache
NextFetch ==
    \/ Advance
    \/ Fetch

\* the count arguments of get_latest: from none of the items to all of them
Counts == 0..MaxItems

\* items[:count] for a count that is not negative
Take(items, count) ==
    SubSeq(items, 1, IF count < Len(items) THEN count ELSE Len(items))

\* base_crawler.py:43-46 get_latest(count): items = await self.fetch(), which
\* returns [] when get_html gave "" and the filtered items of the parsed page
\* otherwise (pbc_crawler.py:23-30), then return items[:count]
GetLatest ==
    /\ \E count \in Counts :
        \/ /\ cItems' = <<>>
           /\ cReturned' = <<>>
           /\ UNCHANGED cache
        \/ \E items \in ItemLists(ParsedItems) :
             LET r == filter_new(items, cache, now) IN
             /\ cItems' = items
             /\ cache' = r.cache
             /\ cReturned' = Take(r.new_items, count)
    /\ cOp' = "get_latest"
    /\ cPrevOp' = cOp
    /\ cRepeat' = FALSE
    /\ UNCHANGED <<now, cHours, cEvicted, fPc, fPage, fReturned, fAt>>
    /\ UNCHANGED <<analyzerVars, dispatchVars, schedVars, stockVars, policyVars>>

NextLatest ==
    \/ Advance
    \/ GetLatest

-----------------------------------------------------------------------------
(* The scheduler, monitor.py *)

\* monitor.py:26,33,47 the three job functions
Jobs == {"market_snapshot", "daily_report", "anomaly_alert"}

\* config.py:73-76 SchedulerConfig: every task enabled by default
AllEnabled == [j \in Jobs |-> TRUE]

\* how the call a job awaits can end: analyze() or check_anomalies() returns
\* (check_anomalies with a non-empty or an empty list) or raises
AwaitOutcomes == {"result", "empty", "raised"}

\* send_all called whether or not there are anomalies
AfterAwaitUnconditional(j, out) ==
    IF out = "raised" THEN "idle"
    ELSE IF j \in {"daily_report", "anomaly_alert"} THEN "sending"
    ELSE "idle"

\* monitor.py:29-30, 36-44, 51-55 where a job goes when its await ends: an
\* exception ends the invocation; job_market_snapshot prints and returns;
\* job_daily_report calls notifier.send_all; job_anomaly_alert calls it if the
\* list is non-empty
AfterAwait(j, out) ==
    IF out = "raised" THEN "idle"
    ELSE IF j = "daily_report" THEN "sending"
    ELSE IF j = "anomaly_alert" /\ out = "result" THEN "sending"
    ELSE "idle"

\* every job added with the cron expression of market_snapshot
JobListSharedCron(cfg) ==
    (IF cfg["market_snapshot"]
     THEN <<[job |-> "market_snapshot", cron |-> "market_snapshot"]>> ELSE <<>>)
    \o (IF cfg["daily_report"]
        THEN <<[job |-> "daily_report", cron |-> "market_snapshot"]>> ELSE <<>>)
    \o (IF cfg["anomaly_alert"]
        THEN <<[job |-> "anomaly_alert", cron |-> "market_snapshot"]>> ELSE <<>>)

\* monitor.py:70-86 the add_job calls of start_scheduler: one per enabled
\* task, the job function with the trigger made from that task's cron
\* (cron names the config.scheduler task whose expression is used)
JobList(cfg) ==
    (IF cfg["market_snapshot"]
     THEN <<[job |-> "market_snapshot", cron |-> "market_snapshot"]>> ELSE <<>>)
    \o (IF cfg["daily_report"]
        THEN <<[job |-> "daily_report", cron |-> "daily_report"]>> ELSE <<>>)
    \o (IF cfg["anomaly_alert"]
        THEN <<[job |-> "anomaly_alert", cron |-> "anomaly_alert"]>> ELSE <<>>)

\* the jobs in the scheduler's job list
RegisteredJobs == {registered[i].job : i \in 1..Len(registered)}

\* the event loop thread is inside a blocking call of some job
Blocked == \E j \in Jobs : jobPc[j] = "sending"

\* a handler that returns without stopping anything
shutdown_ignored(phase) == phase

\* monitor.py:88-91 shutdown(signum, frame): scheduler.shutdown() stops the
\* scheduler, get_event_loop().stop() makes run_forever return once the
\* callbacks now running have returned
shutdown(phase) == "ShuttingDown"

\* monitor.py:68 / 20-23 init(): analyzer and notifier are constructed
DoInit ==
    /\ sPhase = "Stopped"
    /\ ~sExited
    /\ sPhase' = "Initialized"
    /\ sInited' = TRUE
    /\ UNCHANGED <<sCfg, sExited, registered, jobPc, fires, sent, handlerRan, sJobsAdded>>
    /\ UNCHANGED <<analyzerVars, dispatchVars, cacheVars, stockVars, policyVars>>

\* add_job called before init()
AddJobsEarly ==
    /\ sPhase = "Stopped"
    /\ ~sExited
    /\ ~sJobsAdded
    /\ registered' = JobList(sCfg)
    /\ sJobsAdded' = TRUE
    /\ UNCHANGED <<sCfg, sPhase, sExited, jobPc, fires, sent, handlerRan, sInited>>
    /\ UNCHANGED <<analyzerVars, dispatchVars, cacheVars, stockVars, policyVars>>

\* monitor.py:70-86 the three if statements: add_job for each enabled task
AddJobs ==
    /\ sPhase = "Initialized"
    /\ ~sJobsAdded
    /\ registered' = JobList(sCfg)
    /\ sJobsAdded' = TRUE
    /\ UNCHANGED <<sCfg, sPhase, sExited, jobPc, fires, sent, handlerRan, sInited>>
    /\ UNCHANGED <<analyzerVars, dispatchVars, cacheVars, stockVars, policyVars>>

\* monitor.py:93-101 the signal handlers are installed, the scheduler is
\* started and the loop entered
StartRunning ==
    /\ sPhase = "Initialized"
    /\ sJobsAdded
    /\ sPhase' = "Running"
    /\ UNCHANGED <<sCfg, sExited, registered, jobPc, fires, sent, handlerRan, sInited, sJobsAdded>>
    /\ UNCHANGED <<analyzerVars, dispatchVars, cacheVars, stockVars, policyVars>>

\* a trigger fires and the scheduler begins an invocation of its job, which
\* runs to its await (monitor.py:27-28, 34-35, 48-49); a job whose previous
\* invocation is still running is not begun again
Fire ==
    /\ sPhase = "Running"
    /\ ~Blocked
    /\ \E j \in RegisteredJobs :
        /\ jobPc[j] = "idle"
        /\ fires[j] < MaxFires
        /\ jobPc' = [jobPc EXCEPT ![j] = "awaiting"]
        /\ fires' = [fires EXCEPT ![j] = @ + 1]
    /\ UNCHANGED <<sCfg, sPhase, sExited, registered, sent, handlerRan, sInited, sJobsAdded>>
    /\ UNCHANGED <<analyzerVars, dispatchVars, cacheVars, stockVars, policyVars>>

\* the loop resumes a suspended job: its await ends and the job runs on to its
\* end or into send_all; after the handler this can still happen to a job
\* whose wake-up is among the callbacks the loop runs before it stops
Resume ==
    /\ sPhase \in {"Running", "ShuttingDown"}
    /\ ~Blocked
    /\ \E j \in Jobs, out \in AwaitOutcomes :
        /\ jobPc[j] = "awaiting"
        /\ jobPc' = [jobPc EXCEPT ![j] = AfterAwait(j, out)]
    /\ UNCHANGED <<sCfg, sPhase, sExited, registered, fires, sent, handlerRan, sInited, sJobsAdded>>
    /\ UNCHANGED <<analyzerVars, dispatchVars, cacheVars, stockVars, policyVars>>

\* monitor.py:44,55 notifier.send_all returns and the job ends
FinishSend ==
    /\ sPhase \in {"Running", "ShuttingDown"}
    /\ \E j \in Jobs :
        /\ jobPc[j] = "sending"
        /\ jobPc' = [jobPc EXCEPT ![j] = "idle"]
        /\ sent' = [sent EXCEPT ![j] = @ + 1]
    /\ UNCHANGED <<sCfg, sPhase, sExited, registered, fires, handlerRan, sInited, sJobsAdded>>
    /\ UNCHANGED <<analyzerVars, dispatchVars, cacheVars, stockVars, policyVars>>

\* SIGINT or SIGTERM arrives while the loop runs and monitor.py:88-91 executes
\* (on the main thread, also in the middle of a job's blocking send_all)
Signal ==
    /\ sPhase = "Running"
    /\ sPhase' = shutdown(sPhase)
    /\ handlerRan' = TRUE
    /\ UNCHANGED <<sCfg, sExited, registered, jobPc, fires, sent, sInited, sJobsAdded>>
    /\ UNCHANGED <<analyzerVars, dispatchVars, cacheVars, stockVars, policyVars>>

\* monitor.py:101 the stopped loop leaves run_forever once the callback it is
\* in has returned, and start_scheduler returns; a coroutine still suspended
\* is never resumed
LoopExit ==
    /\ sPhase = "ShuttingDown"
    /\ ~Blocked
    /\ sPhase' = "Stopped"
    /\ sExited' = TRUE
    /\ UNCHANGED <<sCfg, registered, jobPc, fires, sent, handlerRan, sInited, sJobsAdded>>
    /\ UNCHANGED <<analyzerVars, dispatchVars, cacheVars, stockVars, policyVars>>

NextSched ==
    \/ DoInit
    \/ AddJobs
    \/ StartRunning
    \/ Fire
    \/ Resume
    \/ FinishSend
    \/ Signal
    \/ LoopExit

-----------------------------------------------------------------------------
(* MarketAnalyzer.collect_all_data, engine.py:46-65 *)

Markets == {"all", "a_share", "us", "hk", "stocks", "crypto", "news", "policy", "bogus"}

\* the news pair appended before the crypto pair
SelectTasksNewsFirst(m) ==
    (IF m \in {"all", "a_share", "us", "hk", "stocks"} THEN <<"stocks">> ELSE <<>>)
    \o (IF m \in {"all", "news"} THEN <<"news">> ELSE <<>>)
    \o (IF m \in {"all", "crypto"} THEN <<"crypto">> ELSE <<>>)

\* engine.py:49-56 the (name, coroutine) pairs the selector chooses, in the order
\* of the three if statements; creating a coroutine object runs none of its body
SelectTasks(m) ==
    (IF m \in {"all", "a_share", "us", "hk", "stocks"} THEN <<"stocks">> ELSE <<>>)
    \o (IF m \in {"all", "crypto"} THEN <<"crypto">> ELSE <<>>)
    \o (IF m \in {"all", "news"} THEN <<"news">> ELSE <<>>)

\* the except clause dropped: the exception leaves collect_all_data
OnAwaitUnguarded(res, name, o) ==
    IF o.kind = "return"
    THEN [results |-> DictSet(res, name, o.data), raised |-> FALSE]
    ELSE [results |-> res, raised |-> TRUE]

\* engine.py:59-63 one iteration of the for loop: try: results[name] = await coro;
\* except Exception: results[name] = []
OnAwait(res, name, o) ==
    IF o.kind = "return"
    THEN [results |-> DictSet(res, name, o.data), raised |-> FALSE]
    ELSE [results |-> DictSet(res, name, <<>>), raised |-> FALSE]

\* engine.py:46-56 collect_all_data(market) is entered: results = {}, tasks built
StartCollect ==
    /\ aPc = "idle"
    /\ \E m \in Markets :
        /\ market' = m
        /\ tasks' = SelectTasks(m)
    /\ caller' = "collect_all_data"
    /\ taskIdx' = 1
    /\ results' = <<>>
    /\ outcomes' = <<>>
    /\ aPc' = "await"
    /\ UNCHANGED <<threshold, anomalies, analysis, dispatchVars, cacheVars, schedVars, stockVars, policyVars>>

\* engine.py:58-60 the loop reaches "await coro" for the next pair: only now
\* does that adapter's collect() start to run, and collect_all_data is
\* suspended in it
AwaitStart ==
    /\ aPc = "await"
    /\ taskIdx <= Len(tasks)
    /\ aPc' = "in_flight"
    /\ UNCHANGED <<caller, market, tasks, taskIdx, results, outcomes, threshold, anomalies, analysis>>
    /\ UNCHANGED <<dispatchVars, cacheVars, schedVars, stockVars, policyVars>>

\* engine.py:59-63 the awaited collect() ends: it returns its list or raises,
\* and the loop stores the category's value
AwaitTask ==
    /\ aPc = "in_flight"
    /\ \E o \in CollectOutcomes(tasks[taskIdx]) :
        LET r == OnAwait(results, tasks[taskIdx], o) IN
        /\ outcomes' = DictSet(outcomes, tasks[taskIdx], o)
        /\ results' = r.results
        /\ aPc' = IF r.raised THEN "collect_raised" ELSE "await"
    /\ taskIdx' = taskIdx + 1
    /\ UNCHANGED <<caller, market, tasks, threshold, anomalies, analysis, dispatchVars, cacheVars, schedVars, stockVars, policyVars>>

\* an adapter's collect() that never completes
Hung == [kind |-> "hang", data |-> <<>>]

\* engine.py:60 "await coro" on a collect() that never completes: the await is
\* unbounded (no wait_for, no timeout), so collect_all_data stays suspended
AwaitHang ==
    /\ aPc = "in_flight"
    /\ outcomes' = DictSet(outcomes, tasks[taskIdx], Hung)
    /\ aPc' = "suspended"
    /\ UNCHANGED <<caller, market, tasks, taskIdx, results, threshold, anomalies, analysis>>
    /\ UNCHANGED <<dispatchVars, cacheVars, schedVars, stockVars, policyVars>>

\* engine.py:65 return results (to the caller when the call was made directly,
\* into check_anomalies' data at engine.py:160 or analyze's at engine.py:68
\* otherwise)
ReturnCollect ==
    /\ aPc = "await"
    /\ taskIdx > Len(tasks)
    /\ aPc' = IF caller = "check_anomalies" THEN "scan"
              ELSE IF caller = "analyze" THEN "format"
              ELSE "done"
    /\ UNCHANGED <<caller, market, tasks, taskIdx, results, outcomes, threshold, anomalies, analysis>>
    /\ UNCHANGED <<dispatchVars, cacheVars, schedVars, stockVars, policyVars>>

-----------------------------------------------------------------------------
(* collect_all_data over the StockCollector, engine.py:46-65 with stocks.py:18-27 *)

\* engine.py:58-60 the loop reaches "await coro" for the stocks pair: the
\* StockCollector's collect() starts (stocks.py:18-19)
AwaitStocksStart ==
    /\ aPc = "await"
    /\ taskIdx <= Len(tasks)
    /\ tasks[taskIdx] = "stocks"
    /\ kPc = "idle"
    /\ aPc' = "in_flight"
    /\ kPc' = "loop"
    /\ kIdx' = 1
    /\ kProvider' = <<>>
    /\ kResults' = <<>>
    /\ UNCHANGED kStocks
    /\ UNCHANGED <<caller, market, tasks, taskIdx, results, outcomes, threshold, anomalies, analysis>>
    /\ UNCHANGED <<dispatchVars, cacheVars, schedVars, policyVars>>

\* stocks.py:27 with engine.py:59-60 collect() returns its list and the loop
\* stores it under "stocks"
AwaitStocksEnd ==
    /\ aPc = "in_flight"
    /\ tasks[taskIdx] = "stocks"
    /\ kPc = "loop"
    /\ kIdx > Len(kStocks)
    /\ kPc' = "done"
    /\ outcomes' = DictSet(outcomes, "stocks", Returned(kResults))
    /\ results' = OnAwait(results, "stocks", Returned(kResults)).results
    /\ taskIdx' = taskIdx + 1
    /\ aPc' = "await"
    /\ UNCHANGED <<kStocks, kIdx, kProvider, kResults>>
    /\ UNCHANGED <<caller, market, tasks, threshold, anomalies, analysis>>
    /\ UNCHANGED <<dispatchVars, cacheVars, schedVars, policyVars>>

\* the selectors that stand for stocks only
StockSelectors == {"a_share", "us", "hk", "stocks"}

\* engine.py:46-56 collect_all_data(market) is entered with a stock selector
StartStockSelect ==
    /\ aPc = "idle"
    /\ \E m \in StockSelectors :
        /\ market' = m
        /\ tasks' = SelectTasks(m)
    /\ caller' = "collect_all_data"
    /\ taskIdx' = 1
    /\ results' = <<>>
    /\ outcomes' = <<>>
    /\ aPc' = "await"
    /\ UNCHANGED <<threshold, anomalies, analysis, dispatchVars, cacheVars, schedVars, stockVars, policyVars>>

NextMarketStocks ==
    \/ StartStockSelect
    \/ AwaitStocksStart
    \/ CollectOneStart
    \/ CollectOneEnd
    \/ AwaitStocksEnd
    \/ ReturnCollect

-----------------------------------------------------------------------------
(* MarketAnalyzer.check_anomalies, engine.py:159-189 *)

\* config.py:80 AlertConfig.price_change_percent
DefaultThreshold == 3

Thresholds == {0, DefaultThreshold}

Abs(n) == IF n < 0 THEN -n ELSE n

\* a strict comparison in place of >=
AlertsStrict(change, thr) == change > thr

\* engine.py:167,179 if change >= threshold
Alerts(change, thr) == change >= thr

\* engine.py:166,178 abs(dp.content.get("change_pct", 0)): the default 0 replaces
\* an absent key only; abs(None) raises TypeError
AbsChange(cp) ==
    IF cp.tag = "num" THEN [raised |-> FALSE, val |-> Abs(cp.val)]
    ELSE IF cp.tag = "missing" THEN [raised |-> FALSE, val |-> 0]
    ELSE [raised |-> TRUE, val |-> 0]

\* engine.py:168-175,180-187 the appended dict; "message" is the f-string of the
\* symbol and the absolute change
Event(type, dp, change) ==
    [type |-> type, symbol |-> dp.symbol, change_pct |-> dp.change_pct,
     message |-> <<dp.symbol, change>>]

\* engine.py:165-175 and 177-187 one for loop over a category's DataPoints,
\* appending to the events so far; stops where abs() raises
RECURSIVE ScanFrom(_, _, _, _, _)
ScanFrom(dps, i, type, thr, acc) ==
    IF i > Len(dps) THEN [raised |-> FALSE, events |-> acc]
    ELSE LET c == AbsChange(dps[i].change_pct) IN
         IF c.raised THEN [raised |-> TRUE, events |-> acc]
         ELSE ScanFrom(dps, i + 1, type, thr,
                       IF Alerts(c.val, thr)
                       THEN Append(acc, Event(type, dps[i], c.val))
                       ELSE acc)

\* the crypto loop placed before the stock loop
ScanSnapshotCryptoFirst(data, thr) ==
    LET s == ScanFrom(DictGetOr(data, "crypto", <<>>), 1, "crypto_price_alert", thr, <<>>) IN
    IF s.raised THEN s
    ELSE ScanFrom(DictGetOr(data, "stocks", <<>>), 1, "stock_price_alert", thr, s.events)

\* engine.py:161-189 the two loops in sequence over data.get("stocks", []) and
\* data.get("crypto", [])
ScanSnapshot(data, thr) ==
    LET s == ScanFrom(DictGetOr(data, "stocks", <<>>), 1, "stock_price_alert", thr, <<>>) IN
    IF s.raised THEN s
    ELSE ScanFrom(DictGetOr(data, "crypto", <<>>), 1, "crypto_price_alert", thr, s.events)

\* engine.py:159-160 check_anomalies() is entered and calls collect_all_data()
\* with the default selector "all"
StartCheckAnomalies ==
    /\ aPc = "idle"
    /\ caller' = "check_anomalies"
    /\ market' = "all"
    /\ tasks' = SelectTasks("all")
    /\ taskIdx' = 1
    /\ results' = <<>>
    /\ outcomes' = <<>>
    /\ aPc' = "await"
    /\ UNCHANGED <<threshold, anomalies, analysis, dispatchVars, cacheVars, schedVars, stockVars, policyVars>>

\* engine.py:161-189 the scan of the snapshot and the return of the list, or
\* the TypeError of abs(None) leaving check_anomalies
Scan ==
    /\ aPc = "scan"
    /\ LET r == ScanSnapshot(results, threshold) IN
        /\ anomalies' = IF r.raised THEN <<>> ELSE r.events
        /\ aPc' = IF r.raised THEN "raised" ELSE "done"
    /\ UNCHANGED <<caller, market, tasks, taskIdx, results, outcomes, threshold, analysis>>
    /\ UNCHANGED <<dispatchVars, cacheVars, schedVars, stockVars, policyVars>>

-----------------------------------------------------------------------------
(* MarketAnalyzer.analyze, engine.py:67-92 *)

\* no analyze() has returned
NoAnalysis == [kind |-> "none", llm |-> "none", report |-> "none", summary |-> <<>>, data |-> <<>>]

\* engine.py:124-138 the chat completion returns a response or raises
LLMOutcomes == {"text", "raise"}

\* crypto.py:75-84 CryptoCollector.format_for_llm: c.get("change_pct", 0) > 0 and
\* the :.2f format of c['change_pct'] need a number; TRUE when it raises
FormatCryptoRaises(dps) == \E i \in 1..Len(dps) : dps[i].change_pct.tag # "num"

\* engine.py:144-145,149-150 content.get("change_pct", 0) > 0 and < 0: the
\* default 0 replaces an absent key only; None > 0 raises TypeError
UpDown(dps) ==
    IF \E i \in 1..Len(dps) : dps[i].change_pct.tag = "null"
    THEN [raised |-> TRUE, up |-> 0, down |-> 0]
    ELSE [raised |-> FALSE,
          up |-> Cardinality({i \in 1..Len(dps) :
                    dps[i].change_pct.tag = "num" /\ dps[i].change_pct.val > 0}),
          down |-> Cardinality({i \in 1..Len(dps) :
                    dps[i].change_pct.tag = "num" /\ dps[i].change_pct.val < 0})]

\* engine.py:140-157 _generate_summary: a line of counts for each non-empty category
GenerateSummary(stocks, crypto) ==
    LET s == UpDown(stocks)
        c == UpDown(crypto) IN
    [raised |-> (stocks # <<>> /\ s.raised) \/ (crypto # <<>> /\ c.raised),
     lines |-> (IF stocks # <<>> THEN <<<<"stocks", s.up, s.down>>>> ELSE <<>>)
               \o (IF crypto # <<>> THEN <<<<"crypto", c.up, c.down>>>> ELSE <<>>)]

\* engine.py:122-138 _generate_report: the completion's text, or in the except
\* clause the "[LLM Analysis Error]" string
GenerateReport(o) == IF o = "text" THEN "text" ELSE "error_annotated"

\* engine.py:67-68 analyze(market) is entered and calls collect_all_data(market)
StartAnalyze ==
    /\ aPc = "idle"
    /\ \E m \in Markets :
        /\ market' = m
        /\ tasks' = SelectTasks(m)
    /\ caller' = "analyze"
    /\ taskIdx' = 1
    /\ results' = <<>>
    /\ outcomes' = <<>>
    /\ analysis' = NoAnalysis
    /\ aPc' = "await"
    /\ UNCHANGED <<threshold, anomalies, dispatchVars, cacheVars, schedVars, stockVars, policyVars>>

\* engine.py:70-81 the three format_for_llm calls, the keywords and the prompt,
\* up to the await of _generate_report; base.py:29-36 (stocks) and news.py:78-128
\* read the content with .items() and .get() only, the crypto formatter can raise
FormatPrompt ==
    /\ aPc = "format"
    /\ aPc' = IF FormatCryptoRaises(DictGetOr(results, "crypto", <<>>))
              THEN "raised" ELSE "llm"
    /\ UNCHANGED <<caller, market, tasks, taskIdx, results, outcomes, threshold, anomalies, analysis>>
    /\ UNCHANGED <<dispatchVars, cacheVars, schedVars, stockVars, policyVars>>

\* engine.py:81-92 _generate_report ends and analyze builds and returns its dict
\* (or an exception of _generate_summary leaves it)
ReturnAnalysis ==
    /\ aPc = "llm"
    /\ \E o \in LLMOutcomes :
        LET stocks == DictGetOr(results, "stocks", <<>>)
            crypto == DictGetOr(results, "crypto", <<>>)
            sm == GenerateSummary(stocks, crypto) IN
        IF sm.raised
        THEN /\ aPc' = "raised"
             /\ UNCHANGED analysis
        ELSE /\ aPc' = "done"
             /\ analysis' = [kind |-> "result", llm |-> o, report |-> GenerateReport(o),
                             summary |-> sm.lines,
                             data |-> <<<<"stocks", stocks>>, <<"crypto", crypto>>>>]
    /\ UNCHANGED <<caller, market, tasks, taskIdx, results, outcomes, threshold, anomalies>>
    /\ UNCHANGED <<dispatchVars, cacheVars, schedVars, stockVars, policyVars>>

NextAnalyze ==
    \/ StartAnalyze
    \/ AwaitStart
    \/ AwaitTask
    \/ ReturnCollect
    \/ FormatPrompt
    \/ ReturnAnalysis

-----------------------------------------------------------------------------
(* job_anomaly_alert run through check_anomalies, monitor.py:47-55 *)

\* monitor.py:47-49 the anomaly_alert trigger fires: the job begins and its
\* await enters check_anomalies (engine.py:159-160)
AlertFire ==
    /\ sPhase = "Running"
    /\ ~Blocked
    /\ "anomaly_alert" \in RegisteredJobs
    /\ jobPc["anomaly_alert"] = "idle"
    /\ fires["anomaly_alert"] < MaxFires
    /\ aPc = "idle"
    /\ jobPc' = [jobPc EXCEPT !["anomaly_alert"] = "awaiting"]
    /\ fires' = [fires EXCEPT !["anomaly_alert"] = @ + 1]
    /\ caller' = "check_anomalies"
    /\ market' = "all"
    /\ tasks' = SelectTasks("all")
    /\ taskIdx' = 1
    /\ results' = <<>>
    /\ outcomes' = <<>>
    /\ aPc' = "await"
    /\ UNCHANGED <<threshold, anomalies, analysis, dispatchVars, cacheVars, stockVars, policyVars>>
    /\ UNCHANGED <<sCfg, sPhase, sExited, registered, sent, handlerRan, sInited, sJobsAdded>>

\* what the job's await of check_anomalies gives: the exception, or the list
\* as non-empty or empty
AlertOutcome ==
    IF aPc = "raised" THEN "raised"
    ELSE IF anomalies # <<>> THEN "result"
    ELSE "empty"

\* monitor.py:49-55 check_anomalies has ended and the job goes on: into
\* send_all if the list is non-empty, to its end otherwise
AlertResume ==
    /\ sPhase \in {"Running", "ShuttingDown"}
    /\ ~Blocked
    /\ jobPc["anomaly_alert"] = "awaiting"
    /\ caller = "check_anomalies"
    /\ aPc \in {"done", "raised"}
    /\ jobPc' = [jobPc EXCEPT !["anomaly_alert"] = AfterAwait("anomaly_alert", AlertOutcome)]
    /\ UNCHANGED <<sCfg, sPhase, sExited, registered, fires, sent, handlerRan, sInited, sJobsAdded>>
    /\ UNCHANGED <<analyzerVars, dispatchVars, cacheVars, stockVars, policyVars>>

\* the scheduler started with its jobs, and one fire of the alert job
NextAlert ==
    \/ DoInit
    \/ AddJobs
    \/ StartRunning
    \/ AlertFire
    \/ AwaitStart
    \/ AwaitTask
    \/ ReturnCollect
    \/ Scan
    \/ AlertResume
    \/ FinishSend

-----------------------------------------------------------------------------
(* Specification of the analyzer *)

\* the analyzer after MarketAnalyzer.__init__, the threshold as configured; the
\* other components at rest
InitAnalyzer ==
    /\ aPc = "idle"
    /\ caller = "none"
    /\ market = "all"
    /\ tasks = <<>>
    /\ taskIdx = 1
    /\ results = <<>>
    /\ outcomes = <<>>
    /\ anomalies = <<>>
    /\ analysis = NoAnalysis
    /\ threshold \in Thresholds
    /\ dCfg = NoChannels
    /\ channels = BuildChannels(NoChannels)
    /\ dPc = "idle"
    /\ dMode = "sync"
    /\ dIdx = 1
    /\ dResults = <<>>
    /\ sendCalls = NoCalls
    /\ netCalls = NoCalls
    /\ sendOutcome = <<>>
    /\ sendResp = <<>>
    /\ now = 0
    /\ cache = EmptyCache
    /\ cOp = "none"
    /\ cPrevOp = "none"
    /\ cItems = <<>>
    /\ cReturned = <<>>
    /\ cHours = 0
    /\ cEvicted = {}
    /\ cRepeat = FALSE
    /\ fPc = [p \in Calls |-> "idle"]
    /\ fPage = <<>>
    /\ fReturned = [p \in Calls |-> <<>>]
    /\ fAt = [p \in Calls |-> 0]
    /\ sCfg = AllEnabled
    /\ sPhase = "Stopped"
    /\ sExited = FALSE
    /\ registered = <<>>
    /\ jobPc = [j \in Jobs |-> "idle"]
    /\ fires = [j \in Jobs |-> 0]
    /\ sent = [j \in Jobs |-> 0]
    /\ handlerRan = FALSE
    /\ sInited = FALSE
    /\ sJobsAdded = FALSE
    /\ kStocks = <<>>
    /\ kPc = "idle"
    /\ kIdx = 1
    /\ kProvider = <<>>
    /\ kResults = <<>>
    /\ pCfg = <<>>
    /\ pPc = "new"
    /\ pCrawlers = <<>>
    /\ pFetch = <<>>
    /\ pOrder = <<>>
    /\ pResults = <<>>

NextAnalyzer ==
    \/ StartCollect
    \/ AwaitStart
    \/ AwaitTask
    \/ ReturnCollect
    \/ StartCheckAnomalies
    \/ Scan

SpecAnalyzer == InitAnalyzer /\ [][NextAnalyzer]_vars

\* the alert job from the start of the scheduler, every task enabled
SpecAlert == InitAnalyzer /\ [][NextAlert]_vars

\* one analyze() call for every selector
SpecAnalyze == InitAnalyzer /\ [][NextAnalyze]_vars

\* the analyzer with adapters that may also hang
NextAnalyzerLive ==
    \/ NextAnalyzer
    \/ AwaitHang

\* the event loop keeps running whatever coroutine can take a step
SpecAnalyzerLive ==
    InitAnalyzer /\ [][NextAnalyzerLive]_vars /\ WF_vars(NextAnalyzerLive)


-----------------------------------------------------------------------------
(* Claims about the analyzer *)

\* collect_all_data has returned its snapshot
CollectReturned == aPc \in {"done", "scan", "raised"}

\* C1: in collect_all_data, a selected category whose collect() raised is in
\* the snapshot as an empty sequence, every other selected category carries
\* exactly the data its adapter returned, and no exception leaves
\* collect_all_data, whichever adapters fail.
C1_FailureIsolation ==
    /\ aPc # "collect_raised"
    /\ CollectReturned =>
        \A i \in 1..Len(tasks) :
            /\ DictHas(outcomes, tasks[i])
            /\ DictHas(results, tasks[i])
            /\ DictGet(results, tasks[i]) =
                 IF DictGet(outcomes, tasks[i]).kind = "raise"
                 THEN <<>>
                 ELSE DictGet(outcomes, tasks[i]).data

\* a returned snapshot of all three categories where only crypto's collect()
\* raised and the other two adapters returned data
C1_Witness ==
    /\ aPc = "done"
    /\ caller = "collect_all_data"
    /\ Len(tasks) = 3
    /\ DictGet(outcomes, "crypto").kind = "raise"
    /\ DictGet(results, "crypto") = <<>>
    /\ DictGet(outcomes, "stocks").kind = "return"
    /\ Len(DictGet(results, "stocks")) = MaxPoints
    /\ Len(DictGet(results, "news")) = 1

\* C13: a collect_all_data call that has begun always eventually returns its
\* snapshot, also when an awaited adapter's collect() never completes.
C13_EventuallyReturns == (aPc = "await") ~> CollectReturned

\* C14: the selected adapters' collect() calls run concurrently: while the
\* collect() of one category is in flight and a later selected category has
\* not been started, that later category's collect() can start.
C14_ConcurrentCollect ==
    (aPc = "in_flight" /\ taskIdx < Len(tasks)) => ENABLED AwaitStart

\* the categories a selector value stands for
Chosen(m) ==
    IF m = "all" THEN {"stocks", "crypto", "news"}
    ELSE IF m \in {"stocks", "a_share", "us", "hk"} THEN {"stocks"}
    ELSE IF m \in {"crypto", "news"} THEN {m}
    ELSE {}

\* the members of S in the fixed category order
RECURSIVE InOrder(_, _)
InOrder(order, S) ==
    IF order = <<>> THEN <<>>
    ELSE (IF Head(order) \in S THEN <<Head(order)>> ELSE <<>>) \o InOrder(Tail(order), S)

\* C15: for every selector value the keys of the returned snapshot are exactly
\* the categories the selector chooses, in the order stocks, crypto, news,
\* a failed or empty category being present as an empty sequence, and an
\* unrecognised selector gives an empty snapshot without error.
C15_KeySet ==
    /\ aPc # "collect_raised"
    /\ CollectReturned =>
         DictKeys(results) = InOrder(<<"stocks", "crypto", "news">>, Chosen(market))

\* a returned snapshot for "all" with the three keys in order, where stocks
\* failed and news had no data: both are present as empty sequences
C15_Witness ==
    /\ aPc = "done"
    /\ market = "all"
    /\ DictKeys(results) = <<"stocks", "crypto", "news">>
    /\ DictGet(outcomes, "stocks").kind = "raise"
    /\ DictGet(results, "stocks") = <<>>
    /\ DictGet(outcomes, "news").kind = "return"
    /\ DictGet(results, "news") = <<>>

\* the events check_anomalies returned for one DataPoint
EventsFor(type, dp) ==
    {i \in 1..Len(anomalies) : anomalies[i].type = type /\ anomalies[i].symbol = dp.symbol}

\* the claim for the DataPoints of one category
ThresholdContract(cat, type) ==
    LET dps == DictGetOr(results, cat, <<>>) IN
    \A i \in 1..Len(dps) :
        dps[i].change_pct.tag = "num" =>
            /\ Cardinality(EventsFor(type, dps[i])) =
                 IF Abs(dps[i].change_pct.val) >= threshold THEN 1 ELSE 0
            /\ \A e \in EventsFor(type, dps[i]) :
                 anomalies[e].change_pct = dps[i].change_pct

\* C4: once check_anomalies has ended, a stock or crypto DataPoint with a
\* numeric change_pct has exactly one AnomalyEvent if abs(change_pct) >=
\* threshold and none otherwise, and the event carries the signed change_pct.
C4_ThresholdEvents ==
    (caller = "check_anomalies" /\ aPc \in {"done", "raised"}) =>
        /\ ThresholdContract("stocks", "stock_price_alert")
        /\ ThresholdContract("crypto", "crypto_price_alert")

\* with threshold 0: one event for a DataPoint of the category whose
\* change_pct is a nonzero number, none for one whose change_pct is 0
NonzeroContract(cat, type) ==
    LET dps == DictGetOr(results, cat, <<>>) IN
    \A i \in 1..Len(dps) :
        dps[i].change_pct.tag = "num" =>
            Cardinality(EventsFor(type, dps[i])) =
                IF dps[i].change_pct.val # 0 THEN 1 ELSE 0

\* C20: with the threshold configured as 0, the list check_anomalies returns
\* has an event for exactly the stock and crypto DataPoints whose change_pct
\* is nonzero; a DataPoint whose change_pct is 0 has none.
C20_ZeroThreshold ==
    (caller = "check_anomalies" /\ aPc = "done" /\ threshold = 0) =>
        /\ NonzeroContract("stocks", "stock_price_alert")
        /\ NonzeroContract("crypto", "crypto_price_alert")

\* no event for a DataPoint of the category whose content lacks change_pct
MissingContract(cat, type) ==
    LET dps == DictGetOr(results, cat, <<>>) IN
    \A i \in 1..Len(dps) :
        dps[i].change_pct.tag = "missing" => EventsFor(type, dps[i]) = {}

\* the snapshot holds a stock or crypto DataPoint whose change_pct is None
HasNullChange ==
    \E cat \in {"stocks", "crypto"} :
        LET dps == DictGetOr(results, cat, <<>>) IN
        \E i \in 1..Len(dps) : dps[i].change_pct.tag = "null"

\* C21: for every configured threshold, a stock or crypto DataPoint whose
\* content has no change_pct has no event in the list check_anomalies
\* returns, and check_anomalies does not raise on account of it.
C21_MissingIsNeutral ==
    caller = "check_anomalies" =>
        /\ aPc = "done" =>
            /\ MissingContract("stocks", "stock_price_alert")
            /\ MissingContract("crypto", "crypto_price_alert")
        /\ aPc = "raised" => HasNullChange

\* C31: check_anomalies returns normally for every adapter output, also when
\* the snapshot holds a crypto DataPoint whose change_pct is present but
\* None, and the list it returns has no event for such a DataPoint.
C31_NullChangeTolerated ==
    caller = "check_anomalies" =>
        /\ aPc # "raised"
        /\ aPc = "done" =>
            LET dps == DictGetOr(results, "crypto", <<>>) IN
            \A i \in 1..Len(dps) :
                dps[i].change_pct.tag = "null" =>
                    EventsFor("crypto_price_alert", dps[i]) = {}

\* the position in the snapshot of the DataPoint an event was made for
PosInSnapshot(e) ==
    LET dps == DictGetOr(results, IF e.type = "stock_price_alert" THEN "stocks" ELSE "crypto", <<>>) IN
    CHOOSE i \in 1..Len(dps) : dps[i].symbol = e.symbol

\* C28: policy is a selectable category: when collect_all_data has returned
\* for the selector "policy" or "all", the policy adapter's collect() was
\* awaited and the snapshot has a "policy" entry.
C28_PolicySelectable ==
    (caller = "collect_all_data" /\ aPc = "done" /\ market \in {"policy", "all"}) =>
        /\ DictHas(outcomes, "policy")
        /\ DictHas(results, "policy")

\* C26: analyze() never raises, whatever the adapters and the LLM call do: once
\* it has ended it has returned a result with summary, report and data, and
\* after a failed LLM call the report is the error-annotated string.
C26_AnalyzeCompletes ==
    caller = "analyze" =>
        /\ aPc # "raised"
        /\ aPc = "done" =>
            /\ analysis.kind = "result"
            /\ analysis.llm = "raise" => analysis.report = "error_annotated"

\* C22: the sequence check_anomalies returns lists all stock events before all
\* crypto events, and the events of one category are in the order of their
\* DataPoints in the snapshot.
C22_EventOrder ==
    (caller = "check_anomalies" /\ aPc = "done") =>
        \A i, j \in 1..Len(anomalies) :
            i < j =>
                \/ /\ anomalies[i].type = "stock_price_alert"
                   /\ anomalies[j].type = "crypto_price_alert"
                \/ /\ anomalies[i].type = anomalies[j].type
                   /\ PosInSnapshot(anomalies[i]) < PosInSnapshot(anomalies[j])

\* a returned list with two stock events followed by a crypto event
C22_Witness ==
    /\ caller = "check_anomalies"
    /\ aPc = "done"
    /\ Len(anomalies) = 3
    /\ anomalies[1].type = "stock_price_alert"
    /\ anomalies[2].type = "stock_price_alert"
    /\ anomalies[3].type = "crypto_price_alert"

\* the fire of the alert job has ended
AlertEnded == fires["anomaly_alert"] >= 1 /\ jobPc["anomaly_alert"] = "idle"

\* every category of the snapshot is empty
AllEmpty == \A i \in 1..Len(results) : results[i][2] = <<>>

\* C23: in a fire of the anomaly-alert job send_all is invoked at most once,
\* and it is invoked if and only if check_anomalies returned at least one
\* event; with an all-empty snapshot check_anomalies returns an empty
\* sequence and send_all is not invoked.
C23_AlertSendsIffAnomalies ==
    /\ sent["anomaly_alert"] <= fires["anomaly_alert"]
    /\ jobPc["anomaly_alert"] = "sending" =>
         (aPc = "done" /\ anomalies # <<>> /\ sent["anomaly_alert"] < fires["anomaly_alert"])
    /\ AlertEnded =>
         (sent["anomaly_alert"] = fires["anomaly_alert"] <=> (aPc = "done" /\ anomalies # <<>>))
    /\ (jobPc["anomaly_alert"] # "awaiting" /\ aPc = "done" /\ AllEmpty) =>
         (anomalies = <<>> /\ sent["anomaly_alert"] = 0 /\ jobPc["anomaly_alert"] = "idle")

\* an ended fire on an all-empty snapshot at threshold 0: nothing was sent
C23_Witness ==
    /\ AlertEnded
    /\ aPc = "done"
    /\ threshold = 0
    /\ Len(results) = 3
    /\ AllEmpty
    /\ anomalies = <<>>
    /\ sent["anomaly_alert"] = 0


-----------------------------------------------------------------------------
(* Specification of the dispatcher *)

\* the dispatcher after NotificationDispatcher.__init__ on any configuration;
\* the other components at rest
InitDispatch ==
    /\ dCfg \in Configs
    /\ channels = BuildChannels(dCfg)
    /\ dPc = "idle"
    /\ dMode = "sync"
    /\ dIdx = 1
    /\ dResults = <<>>
    /\ sendCalls = NoCalls
    /\ netCalls = NoCalls
    /\ sendOutcome = <<>>
    /\ sendResp = <<>>
    /\ aPc = "idle"
    /\ caller = "none"
    /\ market = "all"
    /\ tasks = <<>>
    /\ taskIdx = 1
    /\ results = <<>>
    /\ outcomes = <<>>
    /\ anomalies = <<>>
    /\ analysis = NoAnalysis
    /\ threshold = DefaultThreshold
    /\ now = 0
    /\ cache = EmptyCache
    /\ cOp = "none"
    /\ cPrevOp = "none"
    /\ cItems = <<>>
    /\ cReturned = <<>>
    /\ cHours = 0
    /\ cEvicted = {}
    /\ cRepeat = FALSE
    /\ fPc = [p \in Calls |-> "idle"]
    /\ fPage = <<>>
    /\ fReturned = [p \in Calls |-> <<>>]
    /\ fAt = [p \in Calls |-> 0]
    /\ sCfg = AllEnabled
    /\ sPhase = "Stopped"
    /\ sExited = FALSE
    /\ registered = <<>>
    /\ jobPc = [j \in Jobs |-> "idle"]
    /\ fires = [j \in Jobs |-> 0]
    /\ sent = [j \in Jobs |-> 0]
    /\ handlerRan = FALSE
    /\ sInited = FALSE
    /\ sJobsAdded = FALSE
    /\ kStocks = <<>>
    /\ kPc = "idle"
    /\ kIdx = 1
    /\ kProvider = <<>>
    /\ kResults = <<>>
    /\ pCfg = <<>>
    /\ pPc = "new"
    /\ pCrawlers = <<>>
    /\ pFetch = <<>>
    /\ pOrder = <<>>
    /\ pResults = <<>>

SpecDispatch == InitDispatch /\ [][NextDispatch]_vars


-----------------------------------------------------------------------------
(* Claims about the dispatcher *)

\* C2: send_all and send_all_async never raise; a channel whose send raised or
\* returned False has success = FALSE in the result, every channel's result
\* reflects its own send only, and every channel is attempted whatever the
\* channels before it did.
C2_ChannelIsolation ==
    /\ dPc # "raised"
    /\ \A i \in 1..Len(channels) :
        i < dIdx =>
            /\ DictHas(sendOutcome, channels[i])
            /\ DictHas(dResults, channels[i])
            /\ DictGet(dResults, channels[i]).success =
                 (/\ DictGet(sendOutcome, channels[i]).kind = "return"
                  /\ DictGet(sendOutcome, channels[i]).val)
    /\ dPc = "done" => \A i \in 1..Len(channels) : sendCalls[channels[i]] >= 1

\* a finished dispatch to both channels where telegram has no credentials and
\* reports failure while wechat, tried after it, succeeded
C2_Witness ==
    /\ dPc = "done"
    /\ channels = <<"telegram", "wechat">>
    /\ ~HasCredentials("telegram", dCfg)
    /\ ~DictGet(dResults, "telegram").success
    /\ DictGet(dResults, "wechat").success
    /\ netCalls["wechat"] = 1

\* the names of the enabled channels, in construction order
EnabledNames ==
    (IF dCfg.tgEnabled THEN <<"telegram">> ELSE <<>>)
    \o (IF dCfg.wcEnabled THEN <<"wechat">> ELSE <<>>)

\* C3: in send_all and send_all_async no channel's send is invoked more than
\* once per dispatch, and the returned mapping has exactly one entry per enabled
\* channel, in construction order, each enabled channel's send having been
\* invoked exactly once (no retry after a failure).
C3_OneResultPerChannel ==
    /\ \A n \in ChannelNames : sendCalls[n] <= 1
    /\ dPc = "done" =>
        /\ DictKeys(dResults) = EnabledNames
        /\ \A n \in ChannelNames :
            sendCalls[n] = IF \E i \in 1..Len(EnabledNames) : EnabledNames[i] = n
                           THEN 1 ELSE 0

\* a finished send_all_async to both channels where telegram's POST failed:
\* two entries, one send each
C3_Witness ==
    /\ dPc = "done"
    /\ dMode = "async"
    /\ Len(dResults) = 2
    /\ HasCredentials("telegram", dCfg)
    /\ ~DictGet(dResults, "telegram").success
    /\ sendCalls["telegram"] = 1
    /\ sendCalls["wechat"] = 1

\* a required credential of the channel is empty in the configuration
CredentialsMissing(n) ==
    IF n = "telegram" THEN ~dCfg.tgToken \/ ~dCfg.tgChat ELSE ~dCfg.wcWebhook

\* C16: in every dispatch (send_all or send_all_async) a channel whose required
\* credentials are missing issues no network call, its send does not return
\* success and its result entry reports failure, and its send is invoked at
\* most once (no retry).
C16_NoCredentialsNoCall ==
    \A n \in ChannelNames :
        CredentialsMissing(n) =>
            /\ netCalls[n] = 0
            /\ sendCalls[n] <= 1
            /\ DictHas(sendOutcome, n) => ~DictGet(sendOutcome, n).val
            /\ DictHas(dResults, n) => ~DictGet(dResults, n).success

\* a finished dispatch to both channels where wechat has no webhook:
\* wechat's send was invoked once, returned False and issued no POST, while
\* telegram posted and succeeded
C16_Witness ==
    /\ dPc = "done"
    /\ channels = <<"telegram", "wechat">>
    /\ ~dCfg.wcWebhook
    /\ sendCalls["wechat"] = 1
    /\ netCalls["wechat"] = 0
    /\ DictGet(sendOutcome, "wechat") = SendReturned(FALSE)
    /\ ~DictGet(dResults, "wechat").success
    /\ netCalls["telegram"] = 1
    /\ DictGet(dResults, "telegram").success

\* the channels with a failed entry in the mapping of the running send_all
FailedChannels ==
    {n \in ChannelNames : DictHas(dResults, n) /\ ~DictGet(dResults, n).success}

\* C17: in the mapping of send_all the detail of a channel that failed for
\* missing credentials differs from the detail of a channel that failed for
\* a network or provider failure.
C17_DistinctDetail ==
    dMode = "sync" =>
        \A n, m \in FailedChannels :
            (CredentialsMissing(n) /\ ~CredentialsMissing(m)) =>
                DictGet(dResults, n).message # DictGet(dResults, m).message

\* C18: in every result entry of send_all and send_all_async the detail is
\* "OK" if and only if success is true.
C18_DetailMatchesSuccess ==
    \A i \in 1..Len(dResults) :
        (dResults[i][2].message = "OK") <=> dResults[i][2].success

\* C29: in send_all_async the sends to different channels are in flight at the
\* same time: while one channel's send_async is suspended on its POST and a
\* later channel has not been started, that channel's send_async can start.
C29_ConcurrentSends ==
    (dMode = "async" /\ dPc = "awaiting" /\ dIdx < Len(channels)) => ENABLED AwaitSendStart

\* the response has a 2xx status
Is2xx(resp) == resp.status \in 200..299

\* the provider's body reports an error code
ProviderError(resp) == resp.errcode > 0

\* C27: for each channel, send and send_async return true only if the HTTP
\* response status is 2xx and the provider reported no error code: a non-2xx
\* status gives false and a provider-reported error code gives false, for
\* Telegram and WeChat alike.
C27_TrueOnlyIfDelivered ==
    \A n \in ChannelNames :
        (DictHas(sendResp, n) /\ ~DictGet(sendResp, n).exc) =>
            LET resp == DictGet(sendResp, n)
                ok == DictGet(sendOutcome, n).val IN
            /\ ok => (Is2xx(resp) /\ ~ProviderError(resp))
            /\ ~Is2xx(resp) => ~ok
            /\ ProviderError(resp) => ~ok

-----------------------------------------------------------------------------
(* Specification of a crawler's cache *)

\* a crawler after BaseCrawler.__init__; the other components at rest
InitCache ==
    /\ now = 0
    /\ cache = EmptyCache
    /\ cOp = "none"
    /\ cPrevOp = "none"
    /\ cItems = <<>>
    /\ cReturned = <<>>
    /\ cHours = 0
    /\ cEvicted = {}
    /\ cRepeat = FALSE
    /\ fPc = [p \in Calls |-> "idle"]
    /\ fPage = <<>>
    /\ fReturned = [p \in Calls |-> <<>>]
    /\ fAt = [p \in Calls |-> 0]
    /\ sCfg = AllEnabled
    /\ sPhase = "Stopped"
    /\ sExited = FALSE
    /\ registered = <<>>
    /\ jobPc = [j \in Jobs |-> "idle"]
    /\ fires = [j \in Jobs |-> 0]
    /\ sent = [j \in Jobs |-> 0]
    /\ handlerRan = FALSE
    /\ sInited = FALSE
    /\ sJobsAdded = FALSE
    /\ kStocks = <<>>
    /\ kPc = "idle"
    /\ kIdx = 1
    /\ kProvider = <<>>
    /\ kResults = <<>>
    /\ pCfg = <<>>
    /\ pPc = "new"
    /\ pCrawlers = <<>>
    /\ pFetch = <<>>
    /\ pOrder = <<>>
    /\ pResults = <<>>
    /\ dCfg = NoChannels
    /\ channels = BuildChannels(NoChannels)
    /\ dPc = "idle"
    /\ dMode = "sync"
    /\ dIdx = 1
    /\ dResults = <<>>
    /\ sendCalls = NoCalls
    /\ netCalls = NoCalls
    /\ sendOutcome = <<>>
    /\ sendResp = <<>>
    /\ aPc = "idle"
    /\ caller = "none"
    /\ market = "all"
    /\ tasks = <<>>
    /\ taskIdx = 1
    /\ results = <<>>
    /\ outcomes = <<>>
    /\ anomalies = <<>>
    /\ analysis = NoAnalysis
    /\ threshold = DefaultThreshold

SpecCache == InitCache /\ [][NextCache]_vars

SpecFetch == InitCache /\ [][NextFetch]_vars

\* a crawler driven through get_latest only
SpecLatest == InitCache /\ [][NextLatest]_vars

\* a crawler after BaseCrawler.__init__ whose page parses to any list of
\* items; the other components at rest
InitConcurrentFetch ==
    /\ now = 0
    /\ cache = EmptyCache
    /\ cOp = "none"
    /\ cPrevOp = "none"
    /\ cItems = <<>>
    /\ cReturned = <<>>
    /\ cHours = 0
    /\ cEvicted = {}
    /\ cRepeat = FALSE
    /\ fPc = [p \in Calls |-> "idle"]
    /\ fPage \in ItemLists(ParsedItems)
    /\ fReturned = [p \in Calls |-> <<>>]
    /\ fAt = [p \in Calls |-> 0]
    /\ sCfg = AllEnabled
    /\ sPhase = "Stopped"
    /\ sExited = FALSE
    /\ registered = <<>>
    /\ jobPc = [j \in Jobs |-> "idle"]
    /\ fires = [j \in Jobs |-> 0]
    /\ sent = [j \in Jobs |-> 0]
    /\ handlerRan = FALSE
    /\ sInited = FALSE
    /\ sJobsAdded = FALSE
    /\ kStocks = <<>>
    /\ kPc = "idle"
    /\ kIdx = 1
    /\ kProvider = <<>>
    /\ kResults = <<>>
    /\ pCfg = <<>>
    /\ pPc = "new"
    /\ pCrawlers = <<>>
    /\ pFetch = <<>>
    /\ pOrder = <<>>
    /\ pResults = <<>>
    /\ dCfg = NoChannels
    /\ channels = BuildChannels(NoChannels)
    /\ dPc = "idle"
    /\ dMode = "sync"
    /\ dIdx = 1
    /\ dResults = <<>>
    /\ sendCalls = NoCalls
    /\ netCalls = NoCalls
    /\ sendOutcome = <<>>
    /\ sendResp = <<>>
    /\ aPc = "idle"
    /\ caller = "none"
    /\ market = "all"
    /\ tasks = <<>>
    /\ taskIdx = 1
    /\ results = <<>>
    /\ outcomes = <<>>
    /\ anomalies = <<>>
    /\ analysis = NoAnalysis
    /\ threshold = DefaultThreshold

SpecConcurrentFetch == InitConcurrentFetch /\ [][NextConcurrentFetch]_vars


-----------------------------------------------------------------------------
(* Claims about the crawler cache *)

\* this step is a call of filter_new, of clear_old_cache, of fetch
FilterStep == now' = now /\ cOp' = "filter_new"
ClearStep == now' = now /\ cOp' = "clear_old_cache"
FetchStep == now' = now /\ cOp' = "fetch"

\* the identity key the spec gives an item: its url if non-empty, else its title
ClaimedKey(item) == IF item.url # "" THEN item.url ELSE item.title

\* the items at the indices in S, in input order
RECURSIVE PickFrom(_, _, _)
PickFrom(items, S, i) ==
    IF i > Len(items) THEN <<>>
    ELSE (IF i \in S THEN <<items[i]>> ELSE <<>>) \o PickFrom(items, S, i + 1)

\* the indices of the items whose key is neither in the cache c nor the key of
\* an earlier item of the same call
UnseenIndices(items, c) ==
    {i \in 1..Len(items) :
        /\ ClaimedKey(items[i]) \notin DOMAIN c
        /\ \A j \in 1..(i - 1) : ClaimedKey(items[j]) # ClaimedKey(items[i])}

\* a filter_new step keeps exactly the items at the indices K and records
\* their keys at the current time, leaving the other entries as they were
KeepsExactly(K) ==
    /\ cReturned' = PickFrom(cItems', K, 1)
    /\ DOMAIN cache' = DOMAIN cache \cup {ClaimedKey(cItems'[i]) : i \in K}
    /\ \A k \in DOMAIN cache' :
        cache'[k] = IF k \in DOMAIN cache THEN cache[k] ELSE now

C7_Eviction ==
    [][/\ ClearStep =>
            /\ DOMAIN cache' \subseteq DOMAIN cache
            /\ \A k \in DOMAIN cache :
                IF (now - cache[k]) * TickSeconds > cHours' * SecondsPerHour
                THEN k \notin DOMAIN cache'
                ELSE k \in DOMAIN cache' /\ cache'[k] = cache[k]
       /\ (cOp = "clear_old_cache" /\ FilterStep) =>
            \A i \in 1..Len(cItems') :
                /\ ClaimedKey(cItems'[i]) \in cEvicted =>
                     \E j \in 1..Len(cReturned') : cReturned'[j] = cItems'[i]
                /\ ClaimedKey(cItems'[i]) \in DOMAIN cache =>
                     \A j \in 1..Len(cReturned') : cReturned'[j] # cItems'[i]]_vars

\* a filter_new call right after a clear_old_cache that deleted one key and
\* kept another: the item of the deleted key is returned again, the item of
\* the kept key, recorded before this call, is not
C7_Witness ==
    /\ cOp = "filter_new"
    /\ cPrevOp = "clear_old_cache"
    /\ \E i \in 1..Len(cItems) :
        /\ ClaimedKey(cItems[i]) \in cEvicted
        /\ \E j \in 1..Len(cReturned) : cReturned[j] = cItems[i]
    /\ \E i \in 1..Len(cItems) :
        /\ ClaimedKey(cItems[i]) \in DOMAIN cache
        /\ cache[ClaimedKey(cItems[i])] < now
        /\ \A j \in 1..Len(cReturned) : cReturned[j] # cItems[i]

\* C8: after any sequence of fetch() calls, when a fetch() has completed the
\* cache holds no entry older than the default TTL.
C8_PurgedAroundFetch ==
    [][FetchStep =>
        \A k \in DOMAIN cache' :
            (now' - cache'[k]) * TickSeconds <= DefaultTTL * SecondsPerHour]_vars

\* C33: every item a get_latest(count) call records in the cache as seen is in
\* the list that call returns: no key enters the cache without its item
\* having been delivered.
C33_RecordedIsDelivered ==
    [][(now' = now /\ cOp' = "get_latest") =>
        \A k \in DOMAIN cache' \ DOMAIN cache :
            \E n \in 1..Len(cReturned') : ClaimedKey(cReturned'[n]) = k]_vars

\* C19: every filter_new call returns each of its items whose identity key is
\* empty (no url and no title), however often the item was passed before,
\* and the cache never holds an entry for the empty key.
C19_EmptyKeyAlwaysNew ==
    [][FilterStep =>
        /\ \A i \in 1..Len(cItems') :
              ClaimedKey(cItems'[i]) = "" =>
                  \E j \in 1..Len(cReturned') : cReturned'[j] = cItems'[i]
        /\ "" \notin DOMAIN cache']_vars

\* the deliveries of key k: the positions in the two returned lists of an
\* item with that key
Deliveries(k) ==
    {<<p, i>> \in Calls \X (1..MaxItems) :
        i <= Len(fReturned[p]) /\ ClaimedKey(fReturned[p][i]) = k}

\* C25: when two concurrent fetch() calls on one crawler that parsed the same
\* items have both returned, each item key was returned by exactly one of
\* them and is in the cache, recorded once, at the time that call ran.
C25_AtomicFilter ==
    (\A p \in Calls : fPc[p] = "done") =>
        \A n \in 1..Len(fPage) :
            LET k == ClaimedKey(fPage[n]) IN
            /\ Cardinality(Deliveries(k)) = 1
            /\ k \in DOMAIN cache
            /\ \A d \in Deliveries(k) : cache[k] = fAt[d[1]]

\* both calls have returned on a page of two items: call 2 got both, call 1,
\* which ran later, got none
C25_Witness ==
    /\ \A p \in Calls : fPc[p] = "done"
    /\ Len(fPage) = 2
    /\ ClaimedKey(fPage[1]) # ClaimedKey(fPage[2])
    /\ fReturned[2] = fPage
    /\ fReturned[1] = <<>>
    /\ fAt[2] < fAt[1]


-----------------------------------------------------------------------------
(* Specification of the stock collector *)

\* a StockCollector after __init__ with up to MaxPoints configured symbols; the
\* other components at rest
InitStocks ==
    /\ sCfg = AllEnabled
    /\ sPhase = "Stopped"
    /\ sExited = FALSE
    /\ registered = <<>>
    /\ jobPc = [j \in Jobs |-> "idle"]
    /\ fires = [j \in Jobs |-> 0]
    /\ sent = [j \in Jobs |-> 0]
    /\ handlerRan = FALSE
    /\ sInited = FALSE
    /\ sJobsAdded = FALSE
    /\ kStocks \in UNION {[1..n -> StockMarkets] : n \in 0..MaxPoints}
    /\ kPc = "idle"
    /\ kIdx = 1
    /\ kProvider = <<>>
    /\ kResults = <<>>
    /\ pCfg = <<>>
    /\ pPc = "new"
    /\ pCrawlers = <<>>
    /\ pFetch = <<>>
    /\ pOrder = <<>>
    /\ pResults = <<>>
    /\ now = 0
    /\ cache = EmptyCache
    /\ cOp = "none"
    /\ cPrevOp = "none"
    /\ cItems = <<>>
    /\ cReturned = <<>>
    /\ cHours = 0
    /\ cEvicted = {}
    /\ cRepeat = FALSE
    /\ fPc = [p \in Calls |-> "idle"]
    /\ fPage = <<>>
    /\ fReturned = [p \in Calls |-> <<>>]
    /\ fAt = [p \in Calls |-> 0]
    /\ dCfg = NoChannels
    /\ channels = BuildChannels(NoChannels)
    /\ dPc = "idle"
    /\ dMode = "sync"
    /\ dIdx = 1
    /\ dResults = <<>>
    /\ sendCalls = NoCalls
    /\ netCalls = NoCalls
    /\ sendOutcome = <<>>
    /\ sendResp = <<>>
    /\ aPc = "idle"
    /\ caller = "none"
    /\ market = "all"
    /\ tasks = <<>>
    /\ taskIdx = 1
    /\ results = <<>>
    /\ outcomes = <<>>
    /\ anomalies = <<>>
    /\ analysis = NoAnalysis
    /\ threshold = DefaultThreshold

SpecStocks == InitStocks /\ [][NextStocks]_vars

\* the analyzer at rest over a StockCollector with up to MaxPoints configured
\* symbols of any markets
InitMarketStocks ==
    /\ sCfg = AllEnabled
    /\ sPhase = "Stopped"
    /\ sExited = FALSE
    /\ registered = <<>>
    /\ jobPc = [j \in Jobs |-> "idle"]
    /\ fires = [j \in Jobs |-> 0]
    /\ sent = [j \in Jobs |-> 0]
    /\ handlerRan = FALSE
    /\ sInited = FALSE
    /\ sJobsAdded = FALSE
    /\ kStocks \in UNION {[1..n -> StockMarkets] : n \in 0..MaxPoints}
    /\ kPc = "idle"
    /\ kIdx = 1
    /\ kProvider = <<>>
    /\ kResults = <<>>
    /\ pCfg = <<>>
    /\ pPc = "new"
    /\ pCrawlers = <<>>
    /\ pFetch = <<>>
    /\ pOrder = <<>>
    /\ pResults = <<>>
    /\ now = 0
    /\ cache = EmptyCache
    /\ cOp = "none"
    /\ cPrevOp = "none"
    /\ cItems = <<>>
    /\ cReturned = <<>>
    /\ cHours = 0
    /\ cEvicted = {}
    /\ cRepeat = FALSE
    /\ fPc = [p \in Calls |-> "idle"]
    /\ fPage = <<>>
    /\ fReturned = [p \in Calls |-> <<>>]
    /\ fAt = [p \in Calls |-> 0]
    /\ dCfg = NoChannels
    /\ channels = BuildChannels(NoChannels)
    /\ dPc = "idle"
    /\ dMode = "sync"
    /\ dIdx = 1
    /\ dResults = <<>>
    /\ sendCalls = NoCalls
    /\ netCalls = NoCalls
    /\ sendOutcome = <<>>
    /\ sendResp = <<>>
    /\ aPc = "idle"
    /\ caller = "none"
    /\ market = "all"
    /\ tasks = <<>>
    /\ taskIdx = 1
    /\ results = <<>>
    /\ outcomes = <<>>
    /\ anomalies = <<>>
    /\ analysis = NoAnalysis
    /\ threshold = DefaultThreshold

\* collect_all_data for the stock selectors, the stocks adapter being the
\* StockCollector
SpecMarketStocks == InitMarketStocks /\ [][NextMarketStocks]_vars

\* C35: with a selector naming one stock market, the stocks category of the
\* returned snapshot holds only DataPoints of symbols configured with that
\* market: symbols of the other markets are not collected.
C35_MarketFiltersStocks ==
    (caller = "collect_all_data" /\ aPc = "done" /\ market \in {"a_share", "us", "hk"}) =>
        LET dps == DictGetOr(results, "stocks", <<>>) IN
        \A n \in 1..Len(dps) : kStocks[dps[n].symbol[2]] = market

-----------------------------------------------------------------------------
(* Claims about the stock collector *)

\* the provider gave no data for the i-th configured symbol
ProviderFailed(i) == kProvider[i].kind \in {"no_row", "raises"}

\* C30: when the market-data provider fails (raises or has no row) for a
\* configured symbol, the list collect() returns has no DataPoint for that
\* symbol; with every symbol failing the list is empty, and it holds no
\* DataPoint with empty content.
C30_FailedSymbolOmitted ==
    kPc = "done" =>
        /\ \A i \in 1..Len(kStocks) :
              ProviderFailed(i) =>
                  \A n \in 1..Len(kResults) : kResults[n].symbol # <<"stocks", i>>
        /\ (\A i \in 1..Len(kStocks) : ProviderFailed(i)) => kResults = <<>>
        /\ \A n \in 1..Len(kResults) : kResults[n].content # <<>>

-----------------------------------------------------------------------------
(* Specification of the policy collector *)

\* before PolicyCollector is constructed from a configuration of up to
\* MaxCrawlers entries; the other components at rest
InitPolicy ==
    /\ sCfg = AllEnabled
    /\ sPhase = "Stopped"
    /\ sExited = FALSE
    /\ registered = <<>>
    /\ jobPc = [j \in Jobs |-> "idle"]
    /\ fires = [j \in Jobs |-> 0]
    /\ sent = [j \in Jobs |-> 0]
    /\ handlerRan = FALSE
    /\ sInited = FALSE
    /\ sJobsAdded = FALSE
    /\ kStocks = <<>>
    /\ kPc = "idle"
    /\ kIdx = 1
    /\ kProvider = <<>>
    /\ kResults = <<>>
    /\ pCfg \in UNION {[1..n -> CrawlerEntries] : n \in 0..MaxCrawlers}
    /\ pPc = "new"
    /\ pCrawlers = <<>>
    /\ pFetch = <<>>
    /\ pOrder = <<>>
    /\ pResults = <<>>
    /\ now = 0
    /\ cache = EmptyCache
    /\ cOp = "none"
    /\ cPrevOp = "none"
    /\ cItems = <<>>
    /\ cReturned = <<>>
    /\ cHours = 0
    /\ cEvicted = {}
    /\ cRepeat = FALSE
    /\ fPc = [p \in Calls |-> "idle"]
    /\ fPage = <<>>
    /\ fReturned = [p \in Calls |-> <<>>]
    /\ fAt = [p \in Calls |-> 0]
    /\ dCfg = NoChannels
    /\ channels = BuildChannels(NoChannels)
    /\ dPc = "idle"
    /\ dMode = "sync"
    /\ dIdx = 1
    /\ dResults = <<>>
    /\ sendCalls = NoCalls
    /\ netCalls = NoCalls
    /\ sendOutcome = <<>>
    /\ sendResp = <<>>
    /\ aPc = "idle"
    /\ caller = "none"
    /\ market = "all"
    /\ tasks = <<>>
    /\ taskIdx = 1
    /\ results = <<>>
    /\ outcomes = <<>>
    /\ anomalies = <<>>
    /\ analysis = NoAnalysis
    /\ threshold = DefaultThreshold

SpecPolicy == InitPolicy /\ [][NextPolicy]_vars

-----------------------------------------------------------------------------
(* Claims about the policy collector *)

\* C32: after construction self.crawlers holds exactly one crawler per enabled
\* entry of a known type, in configuration order, also when there is no such
\* entry; a crawler whose entry is disabled is never fetched from.
C32_EnabledCrawlersOnly ==
    pPc # "new" =>
        /\ pCrawlers = ConfiguredCrawlers(pCfg)
        /\ \A i \in DOMAIN pFetch :
              \E n \in 1..Len(pCfg) : pCfg[n].enabled /\ pCfg[n].type = pCrawlers[i]

\* what the crawlers that did not raise returned, crawler by crawler in the
\* order of self.crawlers
RECURSIVE Survivors(_)
Survivors(i) ==
    IF i > Len(pCrawlers) THEN <<>>
    ELSE [n \in 1..Len(pFetch[i].items) |-> <<i, pFetch[i].items[n]>>] \o Survivors(i + 1)

\* C34: collect() never raises; when a crawler's fetch() raises, the items of
\* every other crawler are still returned, and the returned DataPoints are
\* grouped in the order of the crawlers, each crawler's items in their own
\* order, whatever the order in which the fetches ended.
C34_PolicyIsolation ==
    /\ pPc # "raised"
    /\ pPc = "done" =>
        /\ Len(pResults) = Len(Survivors(1))
        /\ \A n \in 1..Len(pResults) :
              /\ <<pResults[n].crawler, pResults[n].item>> = Survivors(1)[n]
              /\ pResults[n].source = pCrawlers[pResults[n].crawler]

\* two configured crawlers: the second one's fetch ended first, the first
\* one's raised, and collect() returned the second one's two items in order
C34_Witness ==
    /\ pPc = "done"
    /\ pCrawlers = <<"pbc", "csrc">>
    /\ pOrder = <<2, 1>>
    /\ pFetch[1].kind = "raise"
    /\ Len(pResults) = 2
    /\ pResults[1].item = 1
    /\ pResults[2].item = 2
    /\ pResults[1].source = "csrc"

-----------------------------------------------------------------------------
(* Specification of the scheduler *)

\* the module-level state of monitor.py before start_scheduler, on any
\* scheduler configuration; the other components at rest
InitSched ==
    /\ sCfg \in [Jobs -> BOOLEAN]
    /\ sPhase = "Stopped"
    /\ sExited = FALSE
    /\ registered = <<>>
    /\ jobPc = [j \in Jobs |-> "idle"]
    /\ fires = [j \in Jobs |-> 0]
    /\ sent = [j \in Jobs |-> 0]
    /\ handlerRan = FALSE
    /\ sInited = FALSE
    /\ sJobsAdded = FALSE
    /\ kStocks = <<>>
    /\ kPc = "idle"
    /\ kIdx = 1
    /\ kProvider = <<>>
    /\ kResults = <<>>
    /\ pCfg = <<>>
    /\ pPc = "new"
    /\ pCrawlers = <<>>
    /\ pFetch = <<>>
    /\ pOrder = <<>>
    /\ pResults = <<>>
    /\ now = 0
    /\ cache = EmptyCache
    /\ cOp = "none"
    /\ cPrevOp = "none"
    /\ cItems = <<>>
    /\ cReturned = <<>>
    /\ cHours = 0
    /\ cEvicted = {}
    /\ cRepeat = FALSE
    /\ fPc = [p \in Calls |-> "idle"]
    /\ fPage = <<>>
    /\ fReturned = [p \in Calls |-> <<>>]
    /\ fAt = [p \in Calls |-> 0]
    /\ dCfg = NoChannels
    /\ channels = BuildChannels(NoChannels)
    /\ dPc = "idle"
    /\ dMode = "sync"
    /\ dIdx = 1
    /\ dResults = <<>>
    /\ sendCalls = NoCalls
    /\ netCalls = NoCalls
    /\ sendOutcome = <<>>
    /\ sendResp = <<>>
    /\ aPc = "idle"
    /\ caller = "none"
    /\ market = "all"
    /\ tasks = <<>>
    /\ taskIdx = 1
    /\ results = <<>>
    /\ outcomes = <<>>
    /\ anomalies = <<>>
    /\ analysis = NoAnalysis
    /\ threshold = DefaultThreshold

SpecSched == InitSched /\ [][NextSched]_vars

-----------------------------------------------------------------------------
(* Claims about the scheduler *)

\* C9: when the scheduler has reached Stopped after a termination signal, no
\* job invocation is still in flight: every invocation that was in flight
\* when the signal arrived has run to completion.
C9_InFlightComplete == sExited => \A j \in Jobs : jobPc[j] = "idle"

\* C10: once the shutdown handler has run, no new invocation of
\* job_market_snapshot, job_daily_report or job_anomaly_alert begins.
C10_NoNewFires == [][handlerRan => fires' = fires]_vars

\* the scheduler stopped by a signal while a registered job that had fired
\* before was idle and had fires left: it was not begun again
C10_Witness ==
    /\ handlerRan
    /\ sExited
    /\ \E j \in RegisteredJobs :
        /\ jobPc[j] = "idle"
        /\ fires[j] >= 1
        /\ fires[j] < MaxFires

\* the lifecycle transitions of the scheduler
Lifecycle ==
    {<<"Stopped", "Initialized">>, <<"Initialized", "Running">>,
     <<"Running", "ShuttingDown">>, <<"ShuttingDown", "Stopped">>}

\* C11: the lifecycle only takes the transitions Stopped -> Initialized ->
\* Running -> ShuttingDown -> Stopped and nothing follows the final Stopped;
\* analyzer and notifier are constructed before any trigger is registered,
\* the triggers are registered before the scheduler starts, and a job
\* invocation begins only in Running with analyzer and notifier constructed.
C11_Lifecycle ==
    [][/\ sPhase' # sPhase => (<<sPhase, sPhase'>> \in Lifecycle /\ ~sExited)
       /\ (registered' # registered \/ sJobsAdded' # sJobsAdded) =>
            (sInited /\ sPhase = "Initialized")
       /\ (sPhase' = "Running" /\ sPhase # "Running") =>
            (sJobsAdded /\ RegisteredJobs = {j \in Jobs : sCfg[j]})
       /\ registered' # registered => sPhase \notin {"Running", "ShuttingDown"}
       /\ fires' # fires => (sInited /\ sPhase = "Running")]_vars

\* the whole lifecycle was walked with at least one job registered and fired:
\* the scheduler is back at Stopped after a signal
C11_Witness ==
    /\ sPhase = "Stopped"
    /\ sExited
    /\ sInited
    /\ sJobsAdded
    /\ \E j \in RegisteredJobs : fires[j] >= 1

\* C12: while the scheduler runs, a due fire of a registered job that is not
\* itself in progress can begin whatever the invocations of the other jobs
\* are doing (suspended, delivering through send_all, or ended by an
\* exception).
C12_FiresIndependent ==
    \A j \in RegisteredJobs :
        (sPhase = "Running" /\ jobPc[j] = "idle" /\ fires[j] < MaxFires) =>
            ENABLED (Fire /\ fires'[j] # fires[j])

\* the entries of the job list for one job
EntriesOf(j) == {i \in 1..Len(registered) : registered[i].job = j}

\* C24: a job whose task has enabled = false is never in the job list and
\* never fires; once start_scheduler has added the jobs, each job whose task
\* is enabled is in the list exactly once, with its own cron expression.
C24_EnabledJobsOnly ==
    \A j \in Jobs :
        /\ ~sCfg[j] => (EntriesOf(j) = {} /\ fires[j] = 0)
        /\ (sCfg[j] /\ sJobsAdded) =>
            /\ Cardinality(EntriesOf(j)) = 1
            /\ \A i \in EntriesOf(j) : registered[i].cron = j
        /\ ~sJobsAdded => EntriesOf(j) = {}

\* a stopped run in which daily_report was disabled: the other two jobs were
\* registered and fired as often as the model follows, daily_report never
C24_Witness ==
    /\ sExited
    /\ ~sCfg["daily_report"]
    /\ Len(registered) = 2
    /\ fires["market_snapshot"] = MaxFires
    /\ fires["anomaly_alert"] = MaxFires
    /\ fires["daily_report"] = 0

=============================================================================
